---- MODULE Spec2Model ----
(***************************************************************************)
(* Model of the SINTA scraper (src/main.py, the Selenium entry point, and  *)
(* src/main-cli.py, the requests-only entry point): the pagination         *)
(* indicator parsers, the per-category item extractors, the page           *)
(* traversal of the list scrapers, the profile scraper and the session     *)
(* life cycle of SessionManager.initialize_session.                        *)
(*                                                                         *)
(* Texts are sequences of one-character strings, so that split, strip and  *)
(* int are computed the way Python computes them.                          *)
(***************************************************************************)
EXTENDS Integers, Sequences, FiniteSets, TLC

\* ------------------------------------------------------------------ bounds
\* Largest number written into a pagination indicator (two digits occur).
MaxNum == 11
\* Listing pages per author and items per listing page on the portal.
MaxPages == 2
MaxItems == 2
\* Items on the single listing page of a book run.
BookItems == 3

\* ------------------------------------------------------------------- state
\* Pagination: the scraper, the indicator the server sends (its form and its
\* text) and total_pages as parsed.
VARIABLES pgScraper, pgForm, pgIndicator, pgTotal

pgVars == <<pgScraper, pgForm, pgIndicator, pgTotal>>

\* Session: the entry point and its environment; the session file and the
\* file auto_login_flow writes; SessionManager.cookies, .headers and
\* .session.cookies; the position inside initialize_session with the
\* call's record; the last two completed calls; the calls made; the next
\* cookie value the server hands out.
VARIABLES variant, env, sessionFile, otherFile, smCookies, smHeaders, jar,
          smPc, cur, callLog, nCalls, nextSid

smVars == <<variant, env, sessionFile, otherFile, smCookies, smHeaders, jar,
            smPc, cur, callLog, nCalls, nextSid>>

\* Scraping: the category being scraped; the portal's content (listing
\* pages and profile pages of the roster authors); the position in the
\* category run; the roster index of the author at work and the names
\* resolved so far; the page counter and total_pages of the running
\* scraper with its all_results; the category run's all_results; the
\* table written; the exception that ended the run; the requests issued.
VARIABLES scCat, remote, scPc, scAuthor, scNames, scPage, scTotal, scResults,
          allResults, written, scError, requests

scVars == <<scCat, remote, scPc, scAuthor, scNames, scPage, scTotal, scResults,
            allResults, written, scError, requests>>

\* The run of main(): the command-line flags and the roster file as found,
\* and the position in main(); in scrape_all, the categories whose table
\* has been written and the category in which the first author's listing
\* has an indicator that is not a number.
VARIABLES mnArgs, mnPc, mnTables, mnGarbled

mnVars == <<mnArgs, mnPc, mnTables, mnGarbled>>

\* Item markup: the extractor applied, the texts of the elements of one
\* ar-list-item, and the fields the extractor's try body gives for it.
VARIABLES txCat, txItem, txRec

txVars == <<txCat, txItem, txRec>>

vars == <<pgVars, smVars, scVars, mnVars, txVars>>

\* ------------------------------------------------------- Python str helpers
Digits == <<"0", "1", "2", "3", "4", "5", "6", "7", "8", "9">>

IsDigit(c) == \E i \in 1..10 : Digits[i] = c

DigitVal(c) == (CHOOSE i \in 1..10 : Digits[i] = c) - 1

IsSpace(c) == c \in {" ", "\n", "\t", "\r"}

\* str(n) for n >= 0: the decimal numeral of n.
RECURSIVE Dec(_)
Dec(n) == IF n < 10 THEN <<Digits[n + 1]>> ELSE Dec(n \div 10) \o <<Digits[(n % 10) + 1]>>

\* s.startswith(p) at offset i (1-based).
MatchAt(s, i, p) ==
    /\ i + Len(p) - 1 <= Len(s)
    /\ \A k \in 1..Len(p) : s[i + k - 1] = p[k]

\* p in s
Contains(s, p) == \E i \in 1..(Len(s) + 1) : MatchAt(s, i, p)

\* s.strip()
RECURSIVE LStrip(_)
LStrip(s) == IF s # <<>> /\ IsSpace(Head(s)) THEN LStrip(Tail(s)) ELSE s

RECURSIVE RStrip(_)
RStrip(s) ==
    IF s # <<>> /\ IsSpace(s[Len(s)]) THEN RStrip(SubSeq(s, 1, Len(s) - 1)) ELSE s

Strip(s) == RStrip(LStrip(s))

\* s.split(sep) for a non-empty separator: the pieces between the
\* non-overlapping occurrences of sep, scanned left to right.
RECURSIVE SplitFrom(_, _, _, _)
SplitFrom(s, sep, i, acc) ==
    IF i > Len(s) THEN <<acc>>
    ELSE IF MatchAt(s, i, sep)
         THEN <<acc>> \o SplitFrom(s, sep, i + Len(sep), <<>>)
         ELSE SplitFrom(s, sep, i + 1, Append(acc, s[i]))

Split(s, sep) == SplitFrom(s, sep, 1, <<>>)

\* s.split(): the maximal runs of non-whitespace characters.
RECURSIVE WordsFrom(_, _, _)
WordsFrom(s, i, acc) ==
    IF i > Len(s) THEN (IF acc = <<>> THEN <<>> ELSE <<acc>>)
    ELSE IF IsSpace(s[i])
         THEN (IF acc = <<>> THEN <<>> ELSE <<acc>>) \o WordsFrom(s, i + 1, <<>>)
         ELSE WordsFrom(s, i + 1, Append(acc, s[i]))

Words(s) == WordsFrom(s, 1, <<>>)

\* Results of an expression that may raise: a value, or the exception.
Value(v) == [exc |-> "none", val |-> v]

Raise(e) == [exc |-> e, val |-> 0]

Raised(r) == r.exc # "none"

\* int(tok) for a token without whitespace: its value, or ValueError.
RECURSIVE DigitsVal(_)
DigitsVal(s) ==
    IF s = <<>> THEN 0 ELSE 10 * DigitsVal(SubSeq(s, 1, Len(s) - 1)) + DigitVal(s[Len(s)])

PyInt(tok) ==
    IF tok # <<>> /\ \A i \in 1..Len(tok) : IsDigit(tok[i])
    THEN Value(DigitsVal(tok))
    ELSE Raise("ValueError")

\* ------------------------------------------------- pagination indicators
\* The page has no element of class pagination-text.
NoIndicator == <<"<", "n", "o", "n", "e", ">">>

\* "Page X of Y"
PageOfText(x, y) ==
    <<"P", "a", "g", "e", " ">> \o Dec(x) \o <<" ", "o", "f", " ">> \o Dec(y)

\* "Page X of Y | Total Records N"
PageOfTotalText(x, y, n) ==
    PageOfText(x, y)
        \o <<" ", "|", " ", "T", "o", "t", "a", "l", " ",
             "R", "e", "c", "o", "r", "d", "s", " ">> \o Dec(n)

\* "Page X of many": an indicator whose page count is not a number.
GarbledText(x) ==
    <<"P", "a", "g", "e", " ">> \o Dec(x) \o <<" ", "o", "f", " ", "m", "a", "n", "y">>

\* "A - B | N"
RangeBarText(a, b, n) ==
    Dec(a) \o <<" ", "-", " ">> \o Dec(b) \o <<" ", "|", " ">> \o Dec(n)

\* int(text.split('of')[-1].strip().split()[0])
OfParserLastPieceMutant(text) ==
    LET pieces == Split(text, <<"o", "f">>)
        words  == Words(Strip(pieces[Len(pieces)]))
    IN  IF words = <<>> THEN Raise("IndexError") ELSE PyInt(words[Len(words)])

OfParser(text) ==
    LET pieces == Split(text, <<"o", "f">>)
        words  == Words(Strip(pieces[Len(pieces)]))
    IN  IF words = <<>> THEN Raise("IndexError") ELSE PyInt(words[1])

\* pagination_text = text.strip(); page_info = pagination_text.split('|')[0].strip();
\* int(page_info.split()[-1])
BarParserAfterSeparatorMutant(text) ==
    LET pieces == Split(Strip(text), <<"|">>)
        words  == Words(Strip(pieces[Len(pieces)]))
    IN  IF words = <<>> THEN Raise("IndexError") ELSE PyInt(words[Len(words)])

BarParser(text) ==
    LET pieces == Split(Strip(text), <<"|">>)
        words  == Words(Strip(pieces[1]))
    IN  IF words = <<>> THEN Raise("IndexError") ELSE PyInt(words[Len(words)])

\* The list scrapers, by the parser each applies to the indicator.
OfScrapers == {"books", "haki", "research", "services"}

BarScrapers == {"scopus", "gs", "wos"}

ListScrapers == OfScrapers \cup BarScrapers

\* if pagination_elem: total_pages = <parser> else: total_pages = 1
TotalPages(scraper, indicator) ==
    IF indicator = NoIndicator THEN Value(1)
    ELSE IF scraper \in BarScrapers THEN BarParser(indicator)
    ELSE OfParser(indicator)

\* The indicator forms the server is given to send, with the numbers in them.
PgForms ==
    [kind : {"none"}, a : {0}, b : {0}, n : {0}]
        \cup [kind : {"pageof"}, a : 1..MaxNum, b : 1..MaxNum, n : {0}]
        \cup [kind : {"pageoftotal"}, a : {1, MaxNum}, b : 1..MaxNum, n : {1, MaxNum, 140}]
        \cup [kind : {"rangebar"}, a : {1, MaxNum}, b : (1..MaxNum) \cup {20},
               n : {1, MaxNum, 140}]

FormText(f) ==
    CASE f.kind = "none" -> NoIndicator
      [] f.kind = "pageof" -> PageOfText(f.a, f.b)
      [] f.kind = "pageoftotal" -> PageOfTotalText(f.a, f.b, f.n)
      [] f.kind = "rangebar" -> RangeBarText(f.a, f.b, f.n)

Pending == [exc |-> "pending", val |-> 0]

PgInit ==
    /\ pgScraper \in ListScrapers
    /\ pgForm \in PgForms
    /\ pgIndicator = FormText(pgForm)
    /\ pgTotal = Pending

\* The parser is not exercised.
PgPark ==
    /\ pgScraper = "books"
    /\ pgForm = [kind |-> "none", a |-> 0, b |-> 0, n |-> 0]
    /\ pgIndicator = NoIndicator
    /\ pgTotal = Value(1)

\* The first fetch of a list scraper: the indicator is parsed once.
ParsePagination ==
    /\ pgTotal = Pending
    /\ pgTotal' = TotalPages(pgScraper, pgIndicator)
    /\ UNCHANGED <<pgScraper, pgForm, pgIndicator>>
    /\ UNCHANGED <<smVars, scVars, mnVars, txVars>>

PgNext == ParsePagination

C2_PageOfResolvesToY ==
    pgTotal # Pending =>
        /\ pgForm.kind \in {"pageof", "pageoftotal"} => pgTotal = Value(pgForm.b)
        /\ pgForm.kind = "none" => pgTotal = Value(1)

\* "Page 1 of 7 | Total Records 140" parsed by scrape_books.
C2_Witness ==
    /\ pgScraper = "books"
    /\ pgForm = [kind |-> "pageoftotal", a |-> 1, b |-> 7, n |-> 140]
    /\ pgTotal = Value(7)

\* =========================================================== session layer
\* Calls of initialize_session made in one run of the model.
MaxCalls == 2

\* scraping.max_retries, the page-load attempts of SintaAutoLogin.login.
MaxRetries == 3

\* The two entry points: "cli" is main-cli.py (SintaRequestLogin, requests
\* only), "main" is main.py (SintaAutoLogin, Selenium).
Variants == {"cli", "main"}

\* URLs are written without the origin https://sinta.kemdikbud.go.id, which
\* contains none of the words the code looks for.
UrlLogins == <<"/", "l", "o", "g", "i", "n", "s">>

UrlAuthors == <<"/", "a", "u", "t", "h", "o", "r", "s">>

UrlDashboard == <<"/", "d", "a", "s", "h", "b", "o", "a", "r", "d">>

UrlProfile == <<"/", "p", "r", "o", "f", "i", "l", "e">>

UrlHome == <<"/", "h", "o", "m", "e">>

\* /logins?to=authors : a login URL that carries the word authors
UrlLoginsToAuthors == UrlLogins \o <<"?", "t", "o", "=">> \o Tail(UrlAuthors)

WLogin == <<"l", "o", "g", "i", "n">>

WAuthors == Tail(UrlAuthors)

WDashboard == Tail(UrlDashboard)

WProfile == Tail(UrlProfile)

\* What a request gives back: a response with its status and final URL
\* (redirects are followed), or a timeout / transport error.
Response(status, url) == [kind |-> "response", status |-> status, url |-> url]

TransportError == [kind |-> "error", status |-> 0, url |-> <<>>]

NoResponse == [kind |-> "none", status |-> 0, url |-> <<>>]

ProbeResponses ==
    {Response(st, u) : st \in {200, 500}, u \in {UrlAuthors, UrlLogins}}
        \cup {TransportError}

PostResponses ==
    {Response(200, u) :
        u \in {UrlAuthors, UrlDashboard, UrlProfile, UrlHome, UrlLogins, UrlLoginsToAuthors}}
        \cup {Response(500, UrlAuthors), Response(500, UrlLogins), TransportError}

\* SessionManager.test_session: the verdict on the probe's outcome.
TestSessionAlwaysInvalidMutant(v, resp) == FALSE

TestSession(v, resp) ==
    IF resp.kind # "response" THEN FALSE
    ELSE IF v = "cli"
         THEN (IF resp.status = 200 THEN ~Contains(resp.url, WLogin) ELSE FALSE)
         ELSE resp.status = 200

\* The verdict of login() on the outcome of the credential submission.
LoginVerdict(v, resp) ==
    IF resp.kind # "response" THEN FALSE
    ELSE IF v = "cli"
         THEN IF resp.status = 200
              THEN IF \/ Contains(resp.url, WAuthors)
                      \/ Contains(resp.url, WDashboard)
                      \/ Contains(resp.url, WProfile)
                   THEN TRUE
                   ELSE IF Contains(resp.url, WLogin) THEN FALSE ELSE TRUE
              ELSE FALSE
         ELSE Contains(resp.url, WAuthors) \/ Contains(resp.url, WDashboard)

\* Cookies: the value held under each cookie name, 0 when the name is absent.
NoCookies == [sid |-> 0, remember |-> 0]

\* dict.update / RequestsCookieJar.update: names of new replace, others stay.
CookieUpdate(old, new) ==
    [sid |-> IF new.sid # 0 THEN new.sid ELSE old.sid,
     remember |-> IF new.remember # 0 THEN new.remember ELSE old.remember]

\* The session file: absent, not parseable as a snapshot, or a snapshot.
NoFile == [kind |-> "none", cookies |-> NoCookies, headers |-> "none"]

CorruptFile == [kind |-> "corrupt", cookies |-> NoCookies, headers |-> "none"]

Snapshot(cookies, headers) == [kind |-> "snapshot", cookies |-> cookies, headers |-> headers]

\* if force_new_login and os.path.exists(session_file): os.remove(session_file)
DiscardKeepsFileMutant(force, file) == file

Discard(force, file) == IF force /\ file.kind # "none" THEN NoFile ELSE file

\* csrf sources of the login page, as get_csrf_token_simple searches them.
TokenPages == {{}, {"meta"}, {"_token"}, {"csrf_token"}, {"meta", "_token"}}

CsrfTokenSimple(page) ==
    IF "meta" \in page THEN "meta" ELSE IF "_token" \in page THEN "_token" ELSE "none"

\* The environment of a run: credentials in .env; selenium importable and
\* ChromeDriver usable (main.py); session_file has a directory part
\* (main-cli.py); session_file is the path auto_login_flow writes (main.py).
Envs ==
    [creds : BOOLEAN, selenium : {TRUE}, driver : {TRUE}, dirPart : BOOLEAN, sameFile : {TRUE}]
        \cup [creds : BOOLEAN, selenium : BOOLEAN, driver : BOOLEAN, dirPart : {TRUE},
              sameFile : BOOLEAN]

EnvOf(v) ==
    IF v = "cli"
    THEN {e \in Envs : e.selenium /\ e.driver /\ e.sameFile}
    ELSE {e \in Envs : e.dirPart}

InitialFiles ==
    {NoFile, CorruptFile,
     Snapshot([sid |-> 1, remember |-> 0], "login"),
     Snapshot([sid |-> 1, remember |-> 1], "login")}

\* The state of one call of initialize_session: its argument, the file it
\* found, the probe's and the submission's outcome, the requests made, the
\* csrf sources of the page the token was looked for on and the token taken.
NewCall(force, file) ==
    [force |-> force, fileBefore |-> file, probe |-> NoResponse, pageGets |-> 0,
     tokenGets |-> 0, posts |-> 0, post |-> NoResponse, token |-> "none",
     tokenPage |-> {}]

NoCall == NewCall(FALSE, NoFile)

SmInit ==
    /\ variant \in Variants
    /\ env \in EnvOf(variant)
    /\ sessionFile \in InitialFiles
    /\ otherFile = NoFile
    /\ smCookies = NoCookies
    /\ smHeaders = "manager"
    /\ jar = NoCookies
    /\ smPc = "idle"
    /\ cur = NoCall
    /\ callLog = <<>>
    /\ nCalls = 0
    /\ nextSid = 2

\* No session call is in progress or made: the session is taken as
\* established before a category run.
SmParked ==
    /\ env = [creds |-> TRUE, selenium |-> TRUE, driver |-> TRUE, dirPart |-> TRUE,
              sameFile |-> TRUE]
    /\ sessionFile = NoFile
    /\ otherFile = NoFile
    /\ smCookies = NoCookies
    /\ smHeaders = "manager"
    /\ jar = NoCookies
    /\ smPc = "parked"
    /\ cur = NoCall
    /\ callLog = <<>>
    /\ nCalls = 0
    /\ nextSid = 2

SmPark == variant = "cli" /\ SmParked

\* The record of a completed call: what it was asked, what it returned and
\* from which step ("guard", "probe", "login" or "persist"), the requests it
\* made and whether it changed the session file.  The last two are kept, the
\* older one without its submission outcome.
Entry(c, ret, via, fileAfter) ==
    [force |-> c.force, ret |-> ret, via |-> via, probe |-> c.probe,
     pageGets |-> c.pageGets, posts |-> c.posts, post |-> c.post,
     fileChanged |-> (fileAfter # c.fileBefore)]

PushCall(log, entry) ==
    IF log = <<>> THEN <<entry>>
    ELSE <<[log[Len(log)] EXCEPT !.post = NoResponse], entry>>

\* return <ret> from initialize_session, the call's record being c
Return(c, ret, via) ==
    /\ smPc' = "idle"
    /\ cur' = NoCall
    /\ callLog' = PushCall(callLog, Entry(c, ret, via, sessionFile'))

\* initialize_session, entry: the guard of the entry point (credentials in
\* main-cli.py, SELENIUM_AVAILABLE in main.py), the forced discard, and the
\* load of the persisted snapshot into the request handle.
InitializeSession(force) ==
    /\ smPc = "idle"
    /\ nCalls < MaxCalls
    /\ nCalls' = nCalls + 1
    /\ UNCHANGED <<variant, env, otherFile, nextSid>>
    /\ UNCHANGED <<pgVars, scVars, mnVars, txVars>>
    /\ IF (variant = "cli" /\ ~env.creds) \/ (variant = "main" /\ ~env.selenium)
       THEN /\ UNCHANGED <<sessionFile, smCookies, smHeaders, jar>>
            /\ Return(NewCall(force, sessionFile), FALSE, "guard")
       ELSE /\ sessionFile' = Discard(force, sessionFile)
            /\ cur' = NewCall(force, sessionFile)
            /\ callLog' = callLog
            /\ IF sessionFile'.kind = "snapshot" /\ ~force
               THEN /\ smPc' = "probe"
                    /\ smCookies' = sessionFile'.cookies
                    /\ IF variant = "cli"
                       THEN /\ jar' = CookieUpdate(jar, sessionFile'.cookies)
                            /\ smHeaders' = smHeaders
                       ELSE /\ jar' = jar
                            /\ smHeaders' = sessionFile'.headers
               ELSE \* no file, forced, or json.load raised: on to the login
                    /\ smPc' = "login"
                    /\ UNCHANGED <<smCookies, smHeaders, jar>>

\* if self.test_session(): return True; otherwise on to the login
Probe(resp) ==
    /\ smPc = "probe"
    /\ UNCHANGED <<variant, env, sessionFile, otherFile, smCookies, smHeaders, jar,
                   nCalls, nextSid>>
    /\ UNCHANGED <<pgVars, scVars, mnVars, txVars>>
    /\ IF TestSession(variant, resp)
       THEN Return([cur EXCEPT !.probe = resp], TRUE, "probe")
       ELSE /\ smPc' = "login"
            /\ cur' = [cur EXCEPT !.probe = resp]
            /\ callLog' = callLog

\* Outcomes of loading the login page: loaded with a form, loaded without the
\* fields the Selenium login looks for, an HTTP error status, a timeout, or
\* another transport error.
PageOutcomes == {"form", "noform", "httperror", "timeout", "error"}

\* login(), first step.  main-cli.py: one GET and raise_for_status.  main.py:
\* auto_login_flow checks the credentials and the driver, then driver.get is
\* attempted up to max_retries times on a timeout, and the username field is
\* looked for.
LoginPage(outcome) ==
    /\ smPc = "login"
    /\ UNCHANGED <<variant, env, sessionFile, otherFile, smCookies, smHeaders, jar,
                   nCalls, nextSid>>
    /\ UNCHANGED <<pgVars, scVars, mnVars, txVars>>
    /\ LET c == [cur EXCEPT !.pageGets = @ + 1]
       IN  IF variant = "cli"
           THEN IF outcome \in {"form", "noform"}
                THEN /\ smPc' = "token"
                     /\ cur' = c
                     /\ callLog' = callLog
                ELSE Return(c, FALSE, "login")
           ELSE IF ~env.creds \/ ~env.driver
                THEN Return(cur, FALSE, "login")
                ELSE IF outcome = "timeout" /\ cur.pageGets < MaxRetries - 1
                     THEN /\ smPc' = "login"
                          /\ cur' = c
                          /\ callLog' = callLog
                     ELSE IF outcome \in {"form", "httperror"}
                          THEN /\ smPc' = "post"
                               /\ cur' = c
                               /\ callLog' = callLog
                          ELSE Return(c, FALSE, "login")

\* csrf_token = self.get_csrf_token_simple(login_page_url): a second GET of
\* the login page; any failure gives no token (main-cli.py only).
Token(page, failed) ==
    /\ smPc = "token"
    /\ cur' = [cur EXCEPT !.tokenGets = @ + 1,
                          !.token = IF failed THEN "none" ELSE CsrfTokenSimple(page),
                          !.tokenPage = IF failed THEN {} ELSE page]
    /\ smPc' = "post"
    /\ UNCHANGED <<variant, env, sessionFile, otherFile, smCookies, smHeaders, jar,
                   callLog, nCalls, nextSid>>
    /\ UNCHANGED <<pgVars, scVars, mnVars, txVars>>

\* The credential submission and the verdict on its outcome.
Submit(resp) ==
    /\ smPc = "post"
    /\ UNCHANGED <<variant, env, sessionFile, otherFile, smCookies, smHeaders, jar,
                   nCalls, nextSid>>
    /\ UNCHANGED <<pgVars, scVars, mnVars, txVars>>
    /\ LET c == [cur EXCEPT !.posts = @ + 1, !.post = resp]
       IN  IF LoginVerdict(variant, resp)
           THEN /\ smPc' = "persist"
                /\ cur' = c
                /\ callLog' = callLog
           ELSE Return(c, FALSE, "login")

\* After a successful login: get_session_data, the handle takes the new
\* cookies, and the snapshot is written.  main-cli.py: os.makedirs of the
\* directory part of session_file raises when there is none.  main.py:
\* auto_login_flow writes 'session_data.json'.
Persist ==
    /\ smPc = "persist"
    /\ nextSid' = nextSid + 1
    /\ UNCHANGED <<variant, env, nCalls>>
    /\ UNCHANGED <<pgVars, scVars, mnVars, txVars>>
    /\ LET fresh == [sid |-> nextSid, remember |-> 0]
           data  == Snapshot(fresh, "login")
       IN  /\ smCookies' = fresh
           /\ IF variant = "cli"
              THEN /\ jar' = CookieUpdate(jar, fresh)
                   /\ smHeaders' = smHeaders
                   /\ otherFile' = otherFile
                   /\ IF env.dirPart
                      THEN /\ sessionFile' = data
                           /\ Return(cur, TRUE, "persist")
                      ELSE /\ sessionFile' = sessionFile
                           /\ Return(cur, FALSE, "persist")
              ELSE /\ jar' = jar
                   /\ smHeaders' = data.headers
                   /\ IF env.sameFile
                      THEN /\ sessionFile' = data
                           /\ otherFile' = otherFile
                      ELSE /\ sessionFile' = sessionFile
                           /\ otherFile' = data
                   /\ Return(cur, TRUE, "persist")

SmNext ==
    \/ \E force \in BOOLEAN : InitializeSession(force)
    \/ \E resp \in ProbeResponses : Probe(resp)
    \/ \E outcome \in PageOutcomes : LoginPage(outcome)
    \/ \E page \in TokenPages, failed \in BOOLEAN : Token(page, failed)
    \/ \E resp \in PostResponses : Submit(resp)
    \/ Persist

\* ------------------------------------------------------ session properties
\* The completed calls on record.
Calls == {callLog[i] : i \in 1..Len(callLog)}

\* The probe came back with a success status and not from a login URL.
ProbePassed(resp) ==
    resp.kind = "response" /\ resp.status = 200 /\ ~Contains(resp.url, WLogin)

\* C7: a call initialize_session(force_new_login=False) that finds a snapshot
\* whose probe succeeds returns true, fetches no login page, posts no
\* credentials and leaves the session file as it was; so do two such calls
\* in succession.
C7_ReuseMakesNoLogin ==
    \A e \in Calls :
        (~e.force /\ ProbePassed(e.probe)) =>
            (e.ret /\ e.pageGets = 0 /\ e.posts = 0 /\ ~e.fileChanged)

\* Two successive unforced calls, the probe passing in both.
C7_Witness ==
    /\ Len(callLog) = 2
    /\ \A e \in Calls : ~e.force /\ ProbePassed(e.probe) /\ e.ret
    /\ sessionFile.kind = "snapshot"

\* C8: in a call initialize_session(force_new_login=True) the session file is
\* gone whenever a probe or login step is due, no probe is made, and the call
\* returns true only after a credential submission of its own.
C8_ForcedDiscardsFirst ==
    /\ (cur.force /\ smPc \in {"probe", "login", "token", "post", "persist"}) =>
            (sessionFile = NoFile /\ smPc # "probe" /\ cur.probe = NoResponse)
    /\ \A e \in Calls :
            e.force => (e.probe = NoResponse /\ (e.ret => e.posts = 1 /\ e.via = "persist"))

\* A snapshot whose probe has just passed is discarded by a forced call, which
\* is now about to submit the credentials.
C8_Witness ==
    /\ Len(callLog) = 1
    /\ callLog[1].via = "probe"
    /\ ProbePassed(callLog[1].probe)
    /\ cur.force
    /\ cur.fileBefore.kind = "snapshot"
    /\ sessionFile = NoFile
    /\ smPc = "post"

\* The verdict of the login step of a call that submitted the credentials.
LoginReported(e) == IF e.via = "persist" THEN "success" ELSE "failure"

\* C9: the login step reports success only if the submission returned an HTTP
\* success status and the resulting URL is not a login URL; a resulting URL
\* containing "login" is reported as failure; a URL containing "authors",
\* "dashboard" or "profile" and not "login", with a success status, is
\* reported as success.
C9_LoginCriterion ==
    \A e \in Calls :
        e.post.kind = "response" =>
            LET isLogin == Contains(e.post.url, WLogin)
                marked  == \/ Contains(e.post.url, WAuthors)
                           \/ Contains(e.post.url, WDashboard)
                           \/ Contains(e.post.url, WProfile)
                okStatus == e.post.status \in 200..299
            IN  /\ LoginReported(e) = "success" => (okStatus /\ ~isLogin)
                /\ isLogin => LoginReported(e) = "failure"
                /\ (okStatus /\ marked /\ ~isLogin) => LoginReported(e) = "success"

\* C10: a call that probed a loaded snapshot returns from the probe, without
\* a login, exactly when the probe came back with a success status and not
\* from a login URL; on every other outcome it goes on to the login.
C10_ProbeCriterion ==
    \A e \in Calls :
        e.probe # NoResponse => (e.via = "probe" <=> ProbePassed(e.probe))

\* The call completed last.
LastCall == callLog[Len(callLog)]

\* C12: after every successful fresh login the session file holds the
\* snapshot of the cookies and headers just obtained, and an unforced call
\* right after a successful fresh login finds that snapshot, probes it and,
\* the probe passing, performs no login.
C12_SnapshotPersisted ==
    /\ (smPc = "idle" /\ callLog # <<>> /\ LastCall.via = "persist") =>
            sessionFile = Snapshot(smCookies, "login")
    /\ (Len(callLog) = 2 /\ callLog[1].via = "persist" /\ ~callLog[2].force) =>
            /\ callLog[2].probe # NoResponse
            /\ ProbePassed(callLog[2].probe) =>
                  (callLog[2].pageGets = 0 /\ callLog[2].posts = 0)

\* The server accepted the session of the call on record: its probe came
\* back from a page behind the login, or its credential submission ended
\* with a success status away from the login page.
Established(e) ==
    \/ ProbePassed(e.probe)
    \/ /\ e.post.kind = "response"
       /\ e.post.status \in 200..299
       /\ ~Contains(e.post.url, WLogin)

\* C13: initialize_session ends in a boolean return value whatever fails
\* during load, probe, login or persist, and the value is false when no
\* authenticated session was established.
C13_BooleanFalseOnFailure ==
    (smPc = "idle" /\ callLog # <<>>) =>
        /\ LastCall.ret \in BOOLEAN
        /\ LastCall.ret => Established(LastCall)

\* C19: no automatic retry.  Within one call of initialize_session the login
\* page is loaded at most once and the credentials are submitted at most
\* once, whatever the outcome of the attempt (the probe is a single request
\* by construction of the call).
C19_NoRetry ==
    /\ cur.pageGets <= 1 /\ cur.posts <= 1
    /\ \A e \in Calls : e.pageGets <= 1 /\ e.posts <= 1

\* The first csrf source of a page in the order meta tag csrf-token, hidden
\* input _token, hidden input csrf_token.
FirstSource(page) ==
    IF "meta" \in page THEN "meta"
    ELSE IF "_token" \in page THEN "_token"
    ELSE IF "csrf_token" \in page THEN "csrf_token" ELSE "none"

\* C21: the token submitted with the credentials (main-cli.py) is the first
\* of meta tag csrf-token, input _token, input csrf_token that the login page
\* has, and none when the page has none of them or its fetch failed.
C21_TokenSearchOrder ==
    (variant = "cli" /\ smPc = "post") => cur.token = FirstSource(cur.tokenPage)

\* What a scraper's request carries: the cookie jar of the requests session
\* (main-cli.py), SessionManager.cookies (main.py), and the manager's headers.
SentCookies == IF variant = "cli" THEN jar ELSE smCookies

SentHeaders == smHeaders

\* C27: when the last call of initialize_session has returned true, the
\* session file holds a snapshot and the cookies and headers a request
\* carries are the snapshot's.
C27_HandleMatchesSnapshot ==
    (smPc = "idle" /\ callLog # <<>> /\ LastCall.ret) =>
        sessionFile = Snapshot(SentCookies, SentHeaders)

\* C28: the last call of initialize_session has returned true exactly when
\* it returned from a passed probe or after a successful credential
\* submission had put the new login's cookies into the handle; in
\* particular it then returns true whether or not the snapshot file could
\* be written.
C28_TrueIffHandleHoldsSession ==
    (smPc = "idle" /\ callLog # <<>>) =>
        /\ LastCall.ret <=> LastCall.via \in {"probe", "persist"}
        /\ LastCall.via = "persist" => SentCookies.sid = nextSid - 1

\* ================================================================ scraping
\* Field values are texts written as sequences of tokens.
NA == <<"N/A">>
PyNone == <<"<None>">>
EmptyText == <<>>
Yes == <<"Yes">>
No == <<"No">>

\* A record is a Python dict: its (field name, value) pairs in insertion order.
Keys(rec) == [k \in 1..Len(rec) |-> rec[k][1]]

Get(rec, field) ==
    LET k == CHOOSE k \in 1..Len(rec) : rec[k][1] = field IN rec[k][2]

HasKey(rec, field) == \E k \in 1..Len(rec) : rec[k][1] = field

\* The roster: (id, name) in main.py's dosen.yaml; main-cli.py reads the ids
\* only and resolves the names from the portal.
Roster ==
    << [id |-> 42, name |-> <<"Dr.", "A">>],
       [id |-> 7, name |-> <<"Dr.", "B">>] >>

NAuthors == Len(Roster)

\* The name the portal shows on the profile page of a roster author.
PortalName(ai) == <<"portal", "name">> \o Dec(Roster[ai].id)

Placeholder(id) == <<"Author_">> \o Dec(id)

\* ---------------------------------------------------------- listing items
\* An ar-list-item: the elements it contains (has) and the number of its
\* ar-quartile anchors (nq).  Its title text names author, page and position.
ItemTitle(ai, p, i) == Dec(ai) \o <<".">> \o Dec(p) \o <<".">> \o Dec(i)

RequiredSlots == {"title", "titleLink", "label", "meta", "pub", "year", "cited",
                  "authorOrder"}
OptionalSlots == {"authors", "creator", "authorsTag", "scopusIndexed", "sinta"}

Slot(item, s) == IF s \in item.has THEN <<s>> ELSE EmptyText

Lacks(item, slots) == slots \ item.has # {}

\* The two trailing fields every list record carries.
Owner(id, name) == << <<"ID Sinta", Dec(id)>>, <<"Nama Sinta", name>> >>

\* BookScraper.scrape_books, the body of the per-item try.
ExtractBookBlankIsbnMutant(item, id, name) ==
    IF Lacks(item, {"title", "label", "pub", "year", "cited"})
    THEN Raise("AttributeError")
    ELSE Value(<< <<"Judul Buku", item.title>>,
                  <<"Kategori Buku", Slot(item, "label")>>,
                  <<"Penulis", Slot(item, "authors")>>,
                  <<"Penerbit", Slot(item, "pub")>>,
                  <<"Tahun", Slot(item, "year")>>,
                  <<"Kota", Slot(item, "cited")>>,
                  <<"ISBN", IF item.nq < 1 THEN NA ELSE <<"quartile">> >> >>
               \o Owner(id, name))

ExtractBook(item, id, name) ==
    IF Lacks(item, {"title", "label", "pub", "year", "cited"}) \/ item.nq < 1
    THEN Raise("AttributeError")
    ELSE Value(<< <<"Judul Buku", item.title>>,
                  <<"Kategori Buku", Slot(item, "label")>>,
                  <<"Penulis", Slot(item, "authors")>>,
                  <<"Penerbit", Slot(item, "pub")>>,
                  <<"Tahun", Slot(item, "year")>>,
                  <<"Kota", Slot(item, "cited")>>,
                  <<"ISBN", <<"quartile">> >> >> \o Owner(id, name))

\* HakiScraper.scrape_haki.
ExtractHaki(item, id, name) ==
    IF Lacks(item, {"title", "label", "year", "cited"}) \/ item.nq < 1
    THEN Raise("AttributeError")
    ELSE Value(<< <<"Judul HAKI", item.title>>,
                  <<"Penemu", Slot(item, "label")>>,
                  <<"Jenis HAKI", <<"quartile">> >>,
                  <<"Nomor HAKI", Slot(item, "cited")>>,
                  <<"Tahun", Slot(item, "year")>> >> \o Owner(id, name))

\* PublicationScraper.scrape_scopus: the creator anchor is optional.
ExtractScopus(item, id, name) ==
    IF "title" \notin item.has THEN Raise("AttributeError")
    ELSE IF "pub" \notin item.has THEN Raise("TypeError")
    ELSE IF Lacks(item, {"year", "cited"}) \/ item.nq < 1
    THEN Raise("AttributeError")
    ELSE Value(<< <<"Judul Artikel", item.title>>,
                  <<"Nama Jurnal", Slot(item, "pub")>>,
                  <<"Quartile", <<"quartile">> >>,
                  <<"Penulis", IF "creator" \in item.has
                               THEN Slot(item, "creator") ELSE PyNone>>,
                  <<"Tahun", Slot(item, "year")>>,
                  <<"Sitasi", Slot(item, "cited")>>,
                  <<"Link", <<"pub.href">> >> >> \o Owner(id, name))

\* PublicationScraper.scrape_google_scholar.
ExtractGScholar(item, id, name) ==
    IF "title" \notin item.has THEN Raise("AttributeError")
    ELSE IF "titleLink" \notin item.has THEN Raise("TypeError")
    ELSE IF Lacks(item, {"meta", "pub", "label", "year", "cited"})
    THEN Raise("AttributeError")
    ELSE Value(<< <<"Judul Artikel", item.title>>,
                  <<"Nama Jurnal", Slot(item, "pub")>>,
                  <<"Penulis", Slot(item, "label")>>,
                  <<"Tahun", Slot(item, "year")>>,
                  <<"Sitasi", Slot(item, "cited")>>,
                  <<"Link", <<"title.href">> >> >> \o Owner(id, name))

\* PublicationScraper.scrape_wos: quartile, author list, Scopus flag and DOI
\* are optional; the author-order anchor must give two numbers.
ExtractWos(item, id, name) ==
    IF "title" \notin item.has THEN Raise("AttributeError")
    ELSE IF "titleLink" \notin item.has THEN Raise("TypeError")
    ELSE IF Lacks(item, {"pub", "meta", "authorOrder", "year", "cited"})
    THEN Raise("AttributeError")
    ELSE Value(<< <<"Judul Artikel", item.title>>,
                  <<"Nama Jurnal", Slot(item, "pub")>>,
                  <<"Quartile", IF item.nq >= 1 THEN <<"quartile">> ELSE NA>>,
                  <<"Edition", Slot(item, "pub")>>,
                  <<"Link Jurnal", <<"pub.href">> >>,
                  <<"Penulis", IF "authorsTag" \in item.has
                               THEN Slot(item, "authorsTag") ELSE PyNone>>,
                  <<"Urutan Penulis", <<"order">> >>,
                  <<"Total Penulis", <<"of">> >>,
                  <<"Tahun", Slot(item, "year")>>,
                  <<"Sitasi", Slot(item, "cited")>>,
                  <<"Terindex Scopus", IF "scopusIndexed" \in item.has
                                       THEN Yes ELSE No>>,
                  <<"DOI", IF "sinta" \in item.has
                           THEN Slot(item, "sinta") ELSE NA>>,
                  <<"Link", <<"title.href">> >> >> \o Owner(id, name))

\* ResearchScraper.scrape_research: three quartile slots are indexed.
ExtractResearch(item, id, name) ==
    IF Lacks(item, {"title", "label", "pub", "year"}) THEN Raise("AttributeError")
    ELSE IF item.nq < 3 THEN Raise("IndexError")
    ELSE Value(<< <<"Judul Penelitian", item.title>>,
                  <<"Ketua Penelitian", Slot(item, "label")>>,
                  <<"Sumber Dana", Slot(item, "pub")>>,
                  <<"Anggota Penelitian", Slot(item, "authors")>>,
                  <<"Tahun", Slot(item, "year")>>,
                  <<"Besar Dana", <<"quartile0">> >>,
                  <<"Status", <<"quartile1">> >>,
                  <<"Sumber", <<"quartile2">> >> >> \o Owner(id, name))

\* CommunityServiceScraper.scrape_services.
ExtractService(item, id, name) ==
    IF Lacks(item, {"title", "label", "pub", "year"}) THEN Raise("AttributeError")
    ELSE IF item.nq < 3 THEN Raise("IndexError")
    ELSE Value(<< <<"Judul PPM", item.title>>,
                  <<"Ketua PPM", Slot(item, "label")>>,
                  <<"Skim PPM", Slot(item, "pub")>>,
                  <<"Anggota PPM", Slot(item, "authors")>>,
                  <<"Tahun", Slot(item, "year")>>,
                  <<"Besar Dana", <<"quartile0">> >>,
                  <<"Status", <<"quartile1">> >>,
                  <<"Sumber", <<"quartile2">> >> >> \o Owner(id, name))

Extract(cat, item, id, name) ==
    CASE cat = "books" -> ExtractBook(item, id, name)
      [] cat = "haki" -> ExtractHaki(item, id, name)
      [] cat = "scopus" -> ExtractScopus(item, id, name)
      [] cat = "gs" -> ExtractGScholar(item, id, name)
      [] cat = "wos" -> ExtractWos(item, id, name)
      [] cat = "research" -> ExtractResearch(item, id, name)
      [] cat = "services" -> ExtractService(item, id, name)

\* The loop over the items of one page: a record is appended for an item
\* whose extraction returns, an item whose extraction raises is skipped.
ProcessItemsStopAtErrorMutant(cat, items, id, name) ==
    LET good(i) == ~Raised(Extract(cat, items[i], id, name))
        upto == IF \A i \in 1..Len(items) : good(i) THEN Len(items)
                ELSE (CHOOSE i \in 1..Len(items) :
                          ~good(i) /\ \A j \in 1..(i - 1) : good(j)) - 1
    IN [k \in 1..upto |-> Extract(cat, items[k], id, name).val]

RECURSIVE ProcessItems(_, _, _, _)
ProcessItems(cat, items, id, name) ==
    IF items = <<>> THEN <<>>
    ELSE LET r == Extract(cat, Head(items), id, name)
             rest == ProcessItems(cat, Tail(items), id, name)
         IN IF Raised(r) THEN rest ELSE <<r.val>> \o rest

\* ------------------------------------------------------------ profile page
\* A profile page: its head (the col-lg col-md section, its h3, the name
\* link in it, and the affiliation, department and score elements) and its
\* stat-table, given as the number of td cells of each tr (the first tr is
\* the header row).
PageHead(section, h3, link, extras) ==
    [section |-> section, h3 |-> h3, link |-> link, extras |-> extras]

FullHead == PageHead(TRUE, TRUE, TRUE, TRUE)

HeadForms ==
    {FullHead, PageHead(FALSE, FALSE, FALSE, FALSE), PageHead(TRUE, FALSE, FALSE, TRUE),
     PageHead(TRUE, TRUE, FALSE, TRUE), PageHead(TRUE, TRUE, TRUE, FALSE)}

NoTable == [present |-> FALSE, rows |-> <<>>]

StatTable(rows) == [present |-> TRUE, rows |-> rows]

FullTable == StatTable(<<0, 3, 3, 3, 3, 3, 3>>)

TableForms ==
    {NoTable, StatTable(<<>>), StatTable(<<0, 3, 3, 3, 3, 3>>), FullTable,
     StatTable(<<0, 3, 3, 3, 3, 3, 2>>), StatTable(<<0, 2, 2, 2, 2, 2, 2>>),
     StatTable(<<0, 3, 3, 3, 3, 3, 3, 3>>)}

ProfilePage(head, table) == [head |-> head, table |-> table]

\* metrics x sources, as the nested loop of scrape_profile names them.
MetricNames ==
    << <<"Scopus Article", "GScholar Article">>,
       <<"Scopus Citation", "GScholar Citation">>,
       <<"Scopus Cited Document", "GScholar Cited Document">>,
       <<"Scopus H-Index", "GScholar H-Index">>,
       <<"Scopus i10-Index", "GScholar i10-Index">>,
       <<"Scopus G-Index", "GScholar G-Index">> >>

NMetrics == Len(MetricNames)
NSources == Len(MetricNames[1])

\* rows[i + 1].find_all('td')[j + 1].text.strip(), i and j counted from 0.
TableCellBlankMutant(table, i, j) ==
    IF i + 2 > Len(table.rows) \/ j + 2 > table.rows[i + 2]
    THEN Value(EmptyText)
    ELSE Value(<<"cell">> \o Dec(i + 1) \o Dec(j + 1))

TableCell(table, i, j) ==
    IF i + 2 > Len(table.rows) \/ j + 2 > table.rows[i + 2]
    THEN Raise("IndexError")
    ELSE Value(<<"cell">> \o Dec(i + 1) \o Dec(j + 1))

\* The nested loop: data[f"{source} {metric}"] = value, metric by metric and
\* within a metric source by source.
MetricLoop(table) ==
    [k \in 1..(NMetrics * NSources) |->
        LET i == (k - 1) \div NSources
            j == (k - 1) % NSources
        IN [name |-> MetricNames[i + 1][j + 1], cell |-> TableCell(table, i, j)]]

\* The dict returned from the except branch.
SentinelMetrics ==
    [k \in 1..(NMetrics * NSources) |->
        LET j == (k - 1) \div NMetrics
            i == (k - 1) % NMetrics
        IN <<MetricNames[i + 1][j + 1], NA>>]

Sentinel(v, id, name) ==
    << <<"Nama Sinta", name>>, <<"ID Sinta", Dec(id)>> >>
    \o (IF v = "cli"
        THEN << <<"Universitas", NA>>, <<"Program Studi", NA>>,
                <<"SINTA Score Overall", NA>>, <<"SINTA Score 3Yr", NA>> >>
        ELSE <<>>)
    \o SentinelMetrics

\* The try branch of ProfileScraper.scrape_profile: the record built from the
\* page, or the exception raised on the way.
ProfileData(v, page, ai, name) ==
    LET id == Roster[ai].id
        loop == MetricLoop(page.table)
        metrics == [k \in 1..Len(loop) |-> <<loop[k].name, loop[k].cell.val>>]
        headFields ==
            IF v = "cli"
            THEN << <<"Nama Sinta", IF page.head.link THEN PortalName(ai) ELSE name>>,
                    <<"ID Sinta", Dec(id)>>,
                    <<"Universitas", IF page.head.extras THEN <<"university">> ELSE NA>>,
                    <<"Program Studi", IF page.head.extras THEN <<"prodi">> ELSE NA>>,
                    <<"SINTA Score Overall", IF page.head.extras THEN <<"overall">> ELSE NA>>,
                    <<"SINTA Score 3Yr", IF page.head.extras THEN <<"3yr">> ELSE NA>> >>
            ELSE << <<"Nama Sinta", name>>, <<"ID Sinta", Dec(id)>> >>
    IN IF v = "cli" /\ (~page.head.section \/ ~page.head.h3)
       THEN Raise("AttributeError")
       ELSE IF ~page.table.present THEN Raise("AttributeError")
       ELSE IF \E k \in 1..Len(loop) : Raised(loop[k].cell)
       THEN Raise("IndexError")
       ELSE Value(headFields \o metrics)

\* ProfileScraper.scrape_profile after the page is fetched.
ProfileRecord(v, page, ai, name) ==
    LET data == ProfileData(v, page, ai, name)
    IN IF Raised(data) THEN Sentinel(v, Roster[ai].id, name) ELSE data.val

\* get_author_name without the except clause around the h3 lookup: a section
\* is taken to hold the name.
GetAuthorNameSectionOnlyMutant(fetched, page, ai) ==
    IF fetched /\ page.head.section
    THEN PortalName(ai)
    ELSE Placeholder(Roster[ai].id)

\* Utils.get_author_name (main-cli.py): the name link of the profile page,
\* the placeholder otherwise.
GetAuthorName(fetched, page, ai) ==
    IF fetched /\ page.head.section /\ page.head.h3 /\ page.head.link
    THEN PortalName(ai)
    ELSE Placeholder(Roster[ai].id)

\* ------------------------------------------------------------- the portal
Categories == ListScrapers \cup {"profile"}

\* A well-formed item; the optional elements are on the odd positions.
GoodItem(ai, p, i) ==
    [title |-> ItemTitle(ai, p, i),
     has |-> RequiredSlots \cup (IF i % 2 = 1 THEN OptionalSlots ELSE {}),
     nq |-> 3]

\* A malformed item: it lacks an element its category's extractor needs.
BadItem(cat, ai, p, i) ==
    LET g == GoodItem(ai, p, i)
    IN CASE cat = "books" -> [g EXCEPT !.nq = 0]
         [] cat = "haki" -> [g EXCEPT !.has = @ \ {"label"}]
         [] cat = "scopus" -> [g EXCEPT !.has = @ \ {"pub"}]
         [] cat = "gs" -> [g EXCEPT !.has = @ \ {"titleLink"}]
         [] cat = "wos" -> [g EXCEPT !.has = @ \ {"authorOrder"}]
         [] cat = "research" -> [g EXCEPT !.nq = 2]
         [] OTHER -> [g EXCEPT !.has = @ \ {"year"}]

\* What a listing is made from: the pages of each author, the items of a
\* page, the positions of the malformed items on a page and the page that
\* has them (<<0, 0>>: every page), and the author whose first page has an
\* indicator that is not a number (0: none).
EveryPage == <<0, 0>>

ListSeeds ==
    {s \in [np : [1..NAuthors -> 1..MaxPages], n : 0..MaxItems,
            bad : SUBSET (1..MaxItems),
            on : {EveryPage} \cup ((1..NAuthors) \X (1..MaxPages)),
            garbled : 0..NAuthors] :
        /\ s.bad \subseteq 1..s.n
        /\ s.bad = {} => s.on = EveryPage
        /\ s.on # EveryPage => s.on[2] <= s.np[s.on[1]]
        /\ s.garbled # 0 => s.bad = {}}

QuietSeed ==
    [np |-> [ai \in 1..NAuthors |-> 1], n |-> 0, bad |-> {}, on |-> EveryPage,
     garbled |-> 0]

Listing(cat, s, ai) ==
    [indicator |-> IF s.garbled = ai THEN GarbledText(1)
                   ELSE IF s.n = 0 /\ s.np[ai] = 1 THEN NoIndicator
                   ELSE PageOfTotalText(1, s.np[ai], s.np[ai] * s.n),
     pages |-> [p \in 1..s.np[ai] |->
                  [i \in 1..s.n |->
                      IF i \in s.bad /\ s.on \in {EveryPage, <<ai, p>>}
                      THEN BadItem(cat, ai, p, i)
                      ELSE GoodItem(ai, p, i)]]]

FullProfile == ProfilePage(FullHead, FullTable)

\* The session expires in the middle of a run: from its request number at on
\* the portal answers every request with the login page it redirects to
\* (status 200) or with an error page (status 500); neither has a listing
\* or profile element in it.  at = 0: the session does not expire.
NoExpiry == [at |-> 0, how |-> "never"]

ExpiryAnswers == {"loginpage", "status500"}

AnswerPage == ProfilePage(PageHead(FALSE, FALSE, FALSE, FALSE), NoTable)

ProfilePages == {ProfilePage(h, t) : h \in HeadForms, t \in TableForms}

\* The portal as a list category run sees it, and as a profile run sees it.
Remotes(cat) ==
    IF cat = "profile"
    THEN {[listing |-> [ai \in 1..NAuthors |-> Listing(cat, QuietSeed, ai)],
           profile |-> pp, expiry |-> NoExpiry] : pp \in [1..NAuthors -> ProfilePages]}
    ELSE {[listing |-> [ai \in 1..NAuthors |-> Listing(cat, s, ai)],
           profile |-> [ai \in 1..NAuthors |-> FullProfile],
           expiry |-> NoExpiry] : s \in ListSeeds}

\* The next request of the run is answered in place of the portal's page.
Expired == remote.expiry.at # 0 /\ Len(requests) + 1 >= remote.expiry.at

\* The items of the page the portal returns for ?page=p: none beyond the
\* last page.
PageItems(ai, p) ==
    IF p \in 1..Len(remote.listing[ai].pages)
    THEN remote.listing[ai].pages[p] ELSE <<>>

\* What a request of the run is answered with: the scrapers read neither
\* the status nor the URL of a response, they parse its content.
ServedIndicator(ai) == IF Expired THEN NoIndicator ELSE remote.listing[ai].indicator

\* The items of the portal's page whatever the answer was.
ServedItemsFromPortalMutant(ai, p) == PageItems(ai, p)

ServedItems(ai, p) == IF Expired THEN <<>> ELSE PageItems(ai, p)

ServedProfile(ai) == IF Expired THEN AnswerPage ELSE remote.profile[ai]

\* ----------------------------------------------------------- category run
\* fieldnames of the save_to_csv of each category.
Fieldnames(v, cat) ==
    CASE cat = "books" ->
           <<"Judul Buku", "Kategori Buku", "Penulis", "Penerbit", "Tahun", "Kota",
             "ISBN", "ID Sinta", "Nama Sinta">>
      [] cat = "haki" ->
           <<"Judul HAKI", "Penemu", "Jenis HAKI", "Nomor HAKI", "Tahun", "ID Sinta",
             "Nama Sinta">>
      [] cat = "scopus" ->
           <<"Judul Artikel", "Nama Jurnal", "Quartile", "Penulis", "Tahun", "Sitasi",
             "Link", "ID Sinta", "Nama Sinta">>
      [] cat = "gs" ->
           <<"Judul Artikel", "Nama Jurnal", "Penulis", "Tahun", "Sitasi", "Link",
             "ID Sinta", "Nama Sinta">>
      [] cat = "wos" ->
           <<"Judul Artikel", "Nama Jurnal", "Quartile", "Edition", "Link Jurnal",
             "Penulis", "Urutan Penulis", "Total Penulis", "Tahun", "Sitasi",
             "Terindex Scopus", "DOI", "Link", "ID Sinta", "Nama Sinta">>
      [] cat = "research" ->
           <<"Judul Penelitian", "Ketua Penelitian", "Sumber Dana",
             "Anggota Penelitian", "Tahun", "Besar Dana", "Status", "Sumber",
             "ID Sinta", "Nama Sinta">>
      [] cat = "services" ->
           <<"Judul PPM", "Ketua PPM", "Skim PPM", "Anggota PPM", "Tahun",
             "Besar Dana", "Status", "Sumber", "ID Sinta", "Nama Sinta">>
      [] OTHER ->
           <<"Nama Sinta", "ID Sinta">>
           \o (IF v = "cli"
               THEN <<"Universitas", "Program Studi", "SINTA Score Overall",
                      "SINTA Score 3Yr">>
               ELSE <<>>)
           \o <<"Scopus Article", "Scopus Citation", "Scopus Cited Document",
                "Scopus H-Index", "Scopus i10-Index", "Scopus G-Index",
                "GScholar Article", "GScholar Citation", "GScholar Cited Document",
                "GScholar H-Index", "GScholar i10-Index", "GScholar G-Index">>

\* csv.DictWriter.writerow: the values in fieldnames order, '' for a missing
\* key and for None; a key outside fieldnames is a ValueError.
CsvRow(fieldnames, rec) ==
    [k \in 1..Len(fieldnames) |->
        IF ~HasKey(rec, fieldnames[k]) \/ Get(rec, fieldnames[k]) = PyNone
        THEN EmptyText ELSE Get(rec, fieldnames[k])]

ExtraKey(fieldnames, rec) ==
    \E k \in 1..Len(rec) : \A f \in 1..Len(fieldnames) : fieldnames[f] # rec[k][1]

NotWritten == [done |-> FALSE, header |-> <<>>, rows |-> <<>>]

\* all_results.extend(results) of the category loops.
ExtendInFrontMutant(all, results) == results \o all

Extend(all, results) == all \o results

Request(view, ai, page) == [view |-> view, author |-> Roster[ai].id, page |-> page]

ScInit ==
    /\ scCat \in Categories
    /\ remote \in Remotes(scCat)
    /\ scPc = "name"
    /\ scAuthor = 1
    /\ scNames = <<>>
    /\ scPage = 0
    /\ scTotal = 0
    /\ scResults = <<>>
    /\ allResults = <<>>
    /\ written = NotWritten
    /\ scError = "none"
    /\ requests = <<>>

\* No category is run.
ScPark ==
    /\ scCat = "books"
    /\ remote = [listing |-> [ai \in 1..NAuthors |-> Listing("books", QuietSeed, ai)],
                 profile |-> [ai \in 1..NAuthors |-> FullProfile], expiry |-> NoExpiry]
    /\ scPc = "parked"
    /\ scAuthor = 1
    /\ scNames = <<>>
    /\ scPage = 0
    /\ scTotal = 0
    /\ scResults = <<>>
    /\ allResults = <<>>
    /\ written = NotWritten
    /\ scError = "none"
    /\ requests = <<>>

\* The exception caught and logged by the category method, which goes on
\* to write its table.
CrashCaughtMutant(exc) ==
    /\ scPc' = "save"
    /\ scError' = exc
    /\ UNCHANGED <<scAuthor, scNames, scPage, scTotal, scResults, allResults,
                   written>>

\* An exception that nothing between the scraper and main() catches.
Crash(exc) ==
    /\ scPc' = "crashed"
    /\ scError' = exc
    /\ UNCHANGED <<scAuthor, scNames, scPage, scTotal, scResults, allResults,
                   written>>

\* The head of a category loop: the next roster author and the author's
\* name, from the roster (main.py) or from the portal (main-cli.py,
\* get_author_name; fetched is whether its request got a response).
ResolveName(fetched) ==
    /\ scPc = "name"
    /\ variant = "main" => fetched
    /\ LET name == IF variant = "cli"
                   THEN GetAuthorName(fetched, ServedProfile(scAuthor), scAuthor)
                   ELSE Roster[scAuthor].name
       IN scNames' = Append(scNames, name)
    /\ requests' = IF variant = "cli"
                   THEN Append(requests, Request("name", scAuthor, 0))
                   ELSE requests
    /\ scPc' = IF scCat = "profile" THEN "profile" ELSE "first"
    /\ UNCHANGED <<scCat, remote, scAuthor, scPage, scTotal, scResults, allResults,
                   written, scError>>
    /\ UNCHANGED <<pgVars, smVars, mnVars, txVars>>

\* The first fetch with the items of its page extracted as well.
FirstFetchKeepsItemsMutant(fetched) ==
    /\ scPc = "first"
    /\ requests' = Append(requests, Request(scCat, scAuthor,
                              IF scCat \in {"haki", "services"} THEN 0 ELSE 1))
    /\ LET total == TotalPages(scCat, ServedIndicator(scAuthor))
       IN IF ~fetched THEN Crash("ConnectionError")
          ELSE IF Raised(total) THEN Crash(total.exc)
          ELSE /\ scTotal' = total.val
               /\ scPage' = 1
               /\ scResults' = ProcessItems(scCat, ServedItems(scAuthor, 1),
                                            Roster[scAuthor].id, scNames[scAuthor])
               /\ scPc' = IF total.val >= 1 THEN "page" ELSE "return"
               /\ UNCHANGED <<scAuthor, scNames, allResults, written, scError>>
    /\ UNCHANGED <<scCat, remote>>
    /\ UNCHANGED <<pgVars, smVars, mnVars, txVars>>

\* A list scraper up to its loop: the first fetch and total_pages.
FirstFetch(fetched) ==
    /\ scPc = "first"
    /\ requests' = Append(requests, Request(scCat, scAuthor,
                              IF scCat \in {"haki", "services"} THEN 0 ELSE 1))
    /\ LET total == TotalPages(scCat, ServedIndicator(scAuthor))
       IN IF ~fetched THEN Crash("ConnectionError")
          ELSE IF Raised(total) THEN Crash(total.exc)
          ELSE /\ scTotal' = total.val
               /\ scPage' = 1
               /\ scResults' = <<>>
               /\ scPc' = IF total.val >= 1 THEN "page" ELSE "return"
               /\ UNCHANGED <<scAuthor, scNames, allResults, written, scError>>
    /\ UNCHANGED <<scCat, remote>>
    /\ UNCHANGED <<pgVars, smVars, mnVars, txVars>>

\* One round of the page loop: the fetch of page scPage and the loop over
\* its items.
FetchPage(fetched) ==
    /\ scPc = "page"
    /\ requests' = Append(requests, Request(scCat, scAuthor, scPage))
    /\ IF ~fetched THEN Crash("ConnectionError")
       ELSE /\ scResults' = scResults \o
                    ProcessItems(scCat, ServedItems(scAuthor, scPage),
                                 Roster[scAuthor].id, scNames[scAuthor])
            /\ scPage' = scPage + 1
            /\ scPc' = IF scPage >= scTotal THEN "return" ELSE "page"
            /\ UNCHANGED <<scAuthor, scNames, scTotal, allResults, written, scError>>
    /\ UNCHANGED <<scCat, remote>>
    /\ UNCHANGED <<pgVars, smVars, mnVars, txVars>>

\* After the last author the category's table is due.
Advance ==
    IF scAuthor < NAuthors
    THEN scAuthor' = scAuthor + 1 /\ scPc' = "name"
    ELSE scAuthor' = scAuthor /\ scPc' = "save"

\* The scraper returns and the category loop extends its all_results.
ReturnResults ==
    /\ scPc = "return"
    /\ allResults' = Extend(allResults, scResults)
    /\ scResults' = <<>>
    /\ Advance
    /\ UNCHANGED <<scCat, remote, scNames, scPage, scTotal, written, scError,
                   requests>>
    /\ UNCHANGED <<pgVars, smVars, mnVars, txVars>>

\* ProfileScraper.scrape_profile and the append of its record.
ScrapeProfile(fetched) ==
    /\ scPc = "profile"
    /\ requests' = Append(requests, Request("profile", scAuthor, 0))
    /\ IF ~fetched THEN Crash("ConnectionError")
       ELSE /\ allResults' = Append(allResults,
                    ProfileRecord(variant, ServedProfile(scAuthor), scAuthor,
                                  scNames[scAuthor]))
            /\ Advance
            /\ UNCHANGED <<scNames, scPage, scTotal, scResults, written, scError>>
    /\ UNCHANGED <<scCat, remote>>
    /\ UNCHANGED <<pgVars, smVars, mnVars, txVars>>

\* save_to_csv: the header and one row per record.
SaveToCsv ==
    /\ scPc = "save"
    /\ LET fieldnames == Fieldnames(variant, scCat)
       IN IF \E k \in 1..Len(allResults) : ExtraKey(fieldnames, allResults[k])
          THEN /\ scPc' = "crashed"
               /\ scError' = "ValueError"
               /\ written' = [done |-> TRUE, header |-> fieldnames, rows |-> <<>>]
          ELSE /\ scPc' = "saved"
               /\ scError' = scError
               /\ written' = [done |-> TRUE, header |-> fieldnames,
                              rows |-> [k \in 1..Len(allResults) |->
                                           CsvRow(fieldnames, allResults[k])]]
    /\ UNCHANGED <<scCat, remote, scAuthor, scNames, scPage, scTotal, scResults,
                   allResults, requests>>
    /\ UNCHANGED <<pgVars, smVars, mnVars, txVars>>

ScNext ==
    \/ \E fetched \in BOOLEAN : ResolveName(fetched)
    \/ \E fetched \in BOOLEAN : FirstFetch(fetched)
    \/ \E fetched \in BOOLEAN : FetchPage(fetched)
    \/ ReturnResults
    \/ \E fetched \in BOOLEAN : ScrapeProfile(fetched)
    \/ SaveToCsv

\* ------------------------------------------------- category run properties
ItemFails(cat, item) == Raised(Extract(cat, item, 0, EmptyText))

FailCount(cat, items) ==
    Cardinality({i \in 1..Len(items) : ItemFails(cat, items[i])})

\* The title is the first field of every list record.
Titles(recs) == [k \in 1..Len(recs) |-> recs[k][1][2]]

\* C3: item isolation.  A round of the page loop of a list scraper whose
\* page was fetched, with n items of which k raise in extraction, appends
\* exactly n - k records, one for each item that does not raise, and goes
\* on: to the next page when there is one, to the return otherwise.
C3_ItemIsolation ==
    [][(scPc = "page" /\ scPc' # "crashed") =>
          LET items == PageItems(scAuthor, scPage)
              k == FailCount(scCat, items)
              new == SubSeq(scResults', Len(scResults) + 1, Len(scResults'))
          IN /\ Len(scResults') = Len(scResults) + Len(items) - k
             /\ SubSeq(scResults', 1, Len(scResults)) = scResults
             /\ {new[j][1][2] : j \in 1..Len(new)} =
                    {items[i].title : i \in {i \in 1..Len(items) :
                                                ~ItemFails(scCat, items[i])}}
             /\ scPage' = scPage + 1
             /\ scPc' = IF scPage < scTotal THEN "page" ELSE "return"]_vars

\* A research run is saved in which the first of the two items of the first
\* author's first page was skipped, the second was kept, and every other
\* item of every page of both authors was kept.
C3_Witness ==
    /\ scCat = "research"
    /\ scPc = "saved"
    /\ Len(remote.listing[1].pages) = MaxPages
    /\ LET items == remote.listing[1].pages[1]
       IN /\ Len(items) = 2
          /\ ItemFails(scCat, items[1])
          /\ ~ItemFails(scCat, items[2])
    /\ LET total == Len(remote.listing[1].pages) * 2 + Len(remote.listing[2].pages) * 2
       IN Len(written.rows) = total - 1

\* C4: schema stability.  All records emitted in a category run have the
\* same field names in the same order.
Emitted == allResults \o scResults

C4_SchemaStable ==
    \A i, j \in 1..Len(Emitted) : Keys(Emitted[i]) = Keys(Emitted[j])

\* The titles of the records due from pages 1..upto of an author, and from
\* the first upto authors of the roster.
GoodTitles(ai, p) ==
    LET kept == SelectSeq(PageItems(ai, p), LAMBDA it : ~ItemFails(scCat, it))
    IN [k \in 1..Len(kept) |-> kept[k].title]

RECURSIVE PagesTitles(_, _)
PagesTitles(ai, upto) ==
    IF upto = 0 THEN <<>> ELSE PagesTitles(ai, upto - 1) \o GoodTitles(ai, upto)

RECURSIVE AuthorsTitles(_)
AuthorsTitles(upto) ==
    IF upto = 0 THEN <<>>
    ELSE AuthorsTitles(upto - 1) \o PagesTitles(upto, Len(remote.listing[upto].pages))

\* C5: order preservation.  In a list category the records collected so far,
\* the result set handed to the writer and the rows written are in roster
\* author order, then ascending page number, then in-page item order, the
\* skipped items left out.
C5_OrderPreserved ==
    scCat \in ListScrapers =>
        /\ scPc \in {"page", "return"} =>
              /\ Titles(allResults) = AuthorsTitles(scAuthor - 1)
              /\ Titles(scResults) = PagesTitles(scAuthor, scPage - 1)
        /\ scPc \in {"save", "saved"} => Titles(allResults) = AuthorsTitles(NAuthors)
        /\ written.done =>
              [k \in 1..Len(written.rows) |-> written.rows[k][1]]
                  = AuthorsTitles(NAuthors)

\* A Scopus table is written with records of both authors and of two pages of
\* the first author, the second item of every page skipped.
C5_Witness ==
    /\ scCat = "scopus"
    /\ scPc = "saved"
    /\ Len(remote.listing[1].pages) = 2
    /\ Len(remote.listing[2].pages) = 1
    /\ \A p \in 1..2 : /\ Len(PageItems(1, p)) = 2
                       /\ ~ItemFails(scCat, PageItems(1, p)[1])
                       /\ ItemFails(scCat, PageItems(1, p)[2])
    /\ Len(written.rows) = 3

\* A stat-table that scrape_profile cannot read in full: it is absent, has
\* fewer than 7 rows, or a row read with fewer than 3 cells.
Defective(table) ==
    \/ ~table.present
    \/ Len(table.rows) < NMetrics + 1
    \/ \E r \in 2..(NMetrics + 1) : table.rows[r] < NSources + 1

\* C6: sentinel completeness.  For a fetched profile page whose stat-table
\* is absent or too short, scrape_profile returns a record with all 12
\* metric fields "N/A" and the supplied author id and name; the only
\* exception that leaves scrape_profile is that of the fetch.
C6_SentinelComplete ==
    scCat = "profile" =>
        /\ \A k \in 1..Len(allResults) :
              Defective(remote.profile[k].table) =>
                  /\ \A i \in 1..NMetrics, j \in 1..NSources :
                        /\ HasKey(allResults[k], MetricNames[i][j])
                        /\ Get(allResults[k], MetricNames[i][j]) = NA
                  /\ Get(allResults[k], "ID Sinta") = Dec(Roster[k].id)
                  /\ Get(allResults[k], "Nama Sinta") = scNames[k]
        /\ scPc = "crashed" => scError = "ConnectionError"

\* A profile table is written for a first author whose stat-table has a last
\* row of two cells and a second author whose page has no stat-table.
C6_Witness ==
    /\ scCat = "profile"
    /\ scPc = "saved"
    /\ remote.profile[1] = ProfilePage(FullHead, StatTable(<<0, 3, 3, 3, 3, 3, 2>>))
    /\ remote.profile[2].table = NoTable
    /\ Len(allResults) = 2

\* The run of the category has ended: the table is written or an exception
\* has left the category method.
RunEnded == scPc \in {"saved", "crashed"}

\* C15: no partial flush.  The table of a category run is written only
\* after the last roster author has been traversed, and once; a run in
\* which a page fetch raised ends without a table, and every other run ends
\* with the table written, one row for each collected record.
C15_NoPartialFlush ==
    /\ written.done =>
          /\ scPc = "saved"
          /\ scAuthor = NAuthors /\ Len(scNames) = NAuthors
          /\ Len(written.rows) = Len(allResults)
    /\ scPc = "crashed" => (scError = "ConnectionError" /\ ~written.done)
    /\ scPc = "saved" => written.done
    /\ RunEnded \/ ENABLED ScNext

\* C16: markup-shape errors never abort a run.  A run ends only with its
\* table written or on a failed fetch: an absent element or a text in an
\* unexpected format, in an item, in the pagination indicator or on the
\* profile page, raises nothing that leaves the scraper.
C16_MarkupNeverAborts ==
    scError \notin {"ValueError", "IndexError", "AttributeError", "TypeError"}

\* The column of a table under a field name.
Column(table, field) ==
    LET c == CHOOSE c \in 1..Len(table.header) : table.header[c] = field
    IN [k \in 1..Len(table.rows) |-> table.rows[k][c]]

\* The number of columns the table of a category is to have.
ColumnCount(cat) ==
    CASE cat = "books" -> 9
      [] cat = "haki" -> 7
      [] cat = "scopus" -> 9
      [] cat = "gs" -> 8
      [] cat = "wos" -> 15
      [] cat = "research" -> 10
      [] cat = "services" -> 10
      [] cat = "profile" -> 18

Range(seq) == {seq[k] : k \in 1..Len(seq)}

\* C17: fixed output schemas.  Under both entry points the table written for
\* a category has the stated number of columns, the last two being ID Sinta
\* and Nama Sinta in the list categories; the Web of Science table has the
\* columns Urutan Penulis and Total Penulis and only "Yes" or "No" under
\* Terindex Scopus; and the keys of every emitted record are the columns of
\* the table.
C17_FixedSchemas ==
    written.done =>
        LET h == written.header
        IN /\ Len(h) = ColumnCount(scCat)
           /\ scCat \in ListScrapers =>
                 (h[Len(h) - 1] = "ID Sinta" /\ h[Len(h)] = "Nama Sinta")
           /\ scCat = "wos" =>
                 /\ {"Urutan Penulis", "Total Penulis"} \subseteq Range(h)
                 /\ Range(Column(written, "Terindex Scopus")) \subseteq {Yes, No}
           /\ \A k \in 1..Len(allResults) : Range(Keys(allResults[k])) = Range(h)

\* C18: sentinel instead of missing value.  No field of an emitted record
\* holds a null value: where the element behind an optional sub-field is
\* absent (the author list of a Scopus or Web of Science item, the quartile
\* and DOI of a Web of Science item, the affiliation, department and scores
\* of a profile), the field holds "N/A".
C18_NoNullValues ==
    \A r \in 1..Len(Emitted) :
        \A k \in 1..Len(Emitted[r]) : Emitted[r][k][2] # PyNone

\* The page numbers of the requests made so far for an author's listing.
PagesAsked(ai) ==
    LET mine == SelectSeq(requests,
                          LAMBDA q : q.view = scCat /\ q.author = Roster[ai].id)
    IN [k \in 1..Len(mine) |-> mine[k].page]

\* The scraper called for the author has returned.
Returned(ai) ==
    \/ ai < scAuthor
    \/ ai = scAuthor /\ scPc \in {"return", "save", "saved"}

\* C25: page traversal.  After the first fetch of an author's listing the
\* scraper asks for the pages 1, 2, ... in ascending order, each once, never
\* beyond the total of the first page's indicator, and has asked for all of
\* them when it returns; the total it loops to is the one parsed from the
\* first fetch; and no item has given more than one record.
C25_PageTraversal ==
    scCat \in ListScrapers =>
        /\ \A ai \in 1..NAuthors :
              LET asked == PagesAsked(ai)
                  total == Len(remote.listing[ai].pages)
              IN /\ \A k \in 2..Len(asked) : asked[k] = k - 1
                 /\ Len(asked) <= 1 + total
                 /\ Returned(ai) => Len(asked) = 1 + total
        /\ scPc \in {"page", "return"} =>
              scTotal = Len(remote.listing[scAuthor].pages)
        /\ \A i, j \in 1..Len(Emitted) :
              Titles(Emitted)[i] = Titles(Emitted)[j] => i = j

\* A book table is written: the first author's listing has two pages of two
\* items and was asked for as page 1 (first fetch), 1, 2; the second
\* author's has one page; the table has the six rows of the six items.
C25_Witness ==
    /\ scCat = "books"
    /\ scPc = "saved"
    /\ PagesAsked(1) = <<1, 1, 2>>
    /\ PagesAsked(2) = <<1, 1>>
    /\ Len(PageItems(1, 1)) = 2
    /\ Len(written.rows) = 6

\* The profile page of the author at the head of the loop has the section,
\* the h3 and the name link that get_author_name reads.
NameOnPage(ai) ==
    LET head == remote.profile[ai].head
    IN head.section /\ head.h3 /\ head.link

Resolving == scPc = "name" /\ variant = "cli"

\* C20: in main-cli.py, whose roster has ids only, the step that resolves an
\* author's name appends either the name on the profile page or the
\* placeholder Author_<id>; it appends the placeholder whenever the page
\* lacks the section, the h3 or the name link; it never ends the run with
\* an exception; it can always be taken, with or without a response; and
\* with a response from a page that has the name it gives that name.
C20_NameResolution ==
    /\ [][Resolving =>
            /\ scPc' \in {"first", "profile"}
            /\ scError' = "none"
            /\ \E n \in {PortalName(scAuthor), Placeholder(Roster[scAuthor].id)} :
                  /\ scNames' = Append(scNames, n)
                  /\ ~NameOnPage(scAuthor) => n = Placeholder(Roster[scAuthor].id)]_vars
    /\ [](Resolving =>
            /\ ENABLED (ResolveName(FALSE)
                          /\ scNames' = Append(scNames, Placeholder(Roster[scAuthor].id)))
            /\ NameOnPage(scAuthor) =>
                 ENABLED (ResolveName(TRUE)
                            /\ scNames' = Append(scNames, PortalName(scAuthor))))

\* A profile run of main-cli.py has been saved; the first author's page has
\* the section but no h3 in it and the author was named Author_42, the
\* second author's page has the name link and the author has the portal's
\* name.
C20_Witness ==
    /\ variant = "cli"
    /\ scCat = "profile"
    /\ scPc = "saved"
    /\ remote.profile[1].head.section /\ ~remote.profile[1].head.h3
    /\ NameOnPage(2)
    /\ scNames = <<Placeholder(42), PortalName(2)>>


\* ------------------------------------------------- the run of an expired session
\* The latest request of a category run at which the session expires.
MaxExpiry == 7

\* The portal of such a run: two pages for the first author, one for the
\* second, one well-formed item on each, the full profile page.
ExpirySeed ==
    [np |-> [ai \in 1..NAuthors |-> IF ai = 1 THEN 2 ELSE 1], n |-> 1, bad |-> {},
     on |-> EveryPage, garbled |-> 0]

ExInit ==
    /\ scCat \in Categories
    /\ remote \in {[listing |-> [ai \in 1..NAuthors |-> Listing(scCat, ExpirySeed, ai)],
                    profile |-> [ai \in 1..NAuthors |-> FullProfile],
                    expiry |-> [at |-> at, how |-> how]] :
                       at \in 1..MaxExpiry, how \in ExpiryAnswers}
    /\ scPc = "name"
    /\ scAuthor = 1
    /\ scNames = <<>>
    /\ scPage = 0
    /\ scTotal = 0
    /\ scResults = <<>>
    /\ allResults = <<>>
    /\ written = NotWritten
    /\ scError = "none"
    /\ requests = <<>>

\* The requests of the page loop that were answered by the portal: the
\* titles of their items are the rows due.
RECURSIVE DueTitles(_)
DueTitles(upto) ==
    IF upto = 0 THEN <<>>
    ELSE LET q == requests[upto]
             first == \A k \in 1..(upto - 1) :
                          requests[k].view # q.view \/ requests[k].author # q.author
             ai == CHOOSE a \in 1..NAuthors : Roster[a].id = q.author
         IN DueTitles(upto - 1)
              \o (IF q.view = scCat /\ ~first /\ upto < remote.expiry.at
                  THEN [i \in 1..Len(PageItems(ai, q.page)) |->
                           PageItems(ai, q.page)[i].title]
                  ELSE <<>>)

Fetching == scPc \in {"first", "page", "profile"}

\* C29: a request answered with the login page or an error status is taken
\* as a page without indicator and without items: the first fetch gives
\* total_pages 1, a round of the page loop appends nothing and goes on, the
\* profile scraper gives its record of N/A; the only exception a fetch step
\* can end with is the transport error; the step that does not end the run
\* can always be taken; and the table that is written has the rows of the
\* pages the portal still answered, and no others.
C29_ExpiredPageIsEmpty ==
    /\ [][(Expired /\ Fetching /\ scPc' # "crashed") =>
            /\ scPc = "first" => (scTotal' = 1 /\ scPc' = "page")
            /\ scPc = "page" => (scResults' = scResults /\ scPage' = scPage + 1)
            /\ scPc = "profile" =>
                  allResults' = Append(allResults,
                                       Sentinel(variant, Roster[scAuthor].id,
                                                scNames[scAuthor]))]_vars
    /\ [][(Expired /\ Fetching /\ scPc' = "crashed") =>
            scError' = "ConnectionError"]_vars
    /\ []((Expired /\ Fetching) => ENABLED (ScNext /\ scPc' # "crashed"))
    /\ []((written.done /\ scCat \in ListScrapers) =>
            [k \in 1..Len(written.rows) |-> written.rows[k][1]]
                = DueTitles(Len(requests)))

\* main-cli.py has written a book table after a run whose session expired
\* at the fourth request, the fetch of the first author's second page: the
\* run went on to the second author, whose listing was asked for twice, and
\* the table has the row of the first author's first page only.
C29_Witness ==
    /\ variant = "cli"
    /\ scCat = "books"
    /\ remote.expiry = [at |-> 4, how |-> "loginpage"]
    /\ scPc = "saved"
    /\ Len(requests) = 7
    /\ PagesAsked(2) = <<1, 1>>
    /\ Len(written.rows) = 1
    /\ written.rows[1][1] = ItemTitle(1, 1, 1)

\* ------------------------------------------------------------ the book run
\* A book run over single-page listings of up to BookItems items, any of
\* them without the ar-quartile anchor that carries the ISBN, on every page
\* or on one author's page.
BookSeeds ==
    {s \in [np : {[ai \in 1..NAuthors |-> 1]}, n : 0..BookItems,
            bad : SUBSET (1..BookItems),
            on : {EveryPage} \cup ((1..NAuthors) \X {1}),
            garbled : {0}] :
        /\ s.bad \subseteq 1..s.n
        /\ s.bad = {} => s.on = EveryPage}

BkInit ==
    /\ scCat = "books"
    /\ remote \in {[listing |-> [ai \in 1..NAuthors |-> Listing("books", s, ai)],
                    profile |-> [ai \in 1..NAuthors |-> FullProfile],
                    expiry |-> NoExpiry] : s \in BookSeeds}
    /\ scPc = "name"
    /\ scAuthor = 1
    /\ scNames = <<>>
    /\ scPage = 0
    /\ scTotal = 0
    /\ scResults = <<>>
    /\ allResults = <<>>
    /\ written = NotWritten
    /\ scError = "none"
    /\ requests = <<>>

BkNext ==
    \/ \E fetched \in BOOLEAN : ResolveName(fetched)
    \/ \E fetched \in BOOLEAN : FirstFetch(fetched)
    \/ \E fetched \in BOOLEAN : FetchPage(fetched)
    \/ ReturnResults
    \/ SaveToCsv

\* The name an author's rows are due to carry: the roster's (main.py), the
\* one resolved for the author (main-cli.py, whose roster has ids only).
DueName(ai) == IF variant = "main" THEN Roster[ai].name ELSE scNames[ai]

\* The rows due from the book listing of the first upto authors: title, id
\* and name of every item that has its ISBN anchor, in order.
RECURSIVE DueBookRows(_)
DueBookRows(upto) ==
    IF upto = 0 THEN <<>>
    ELSE LET items == PageItems(upto, 1)
             kept == SelectSeq(items, LAMBDA it : it.nq >= 1)
         IN DueBookRows(upto - 1) \o
            [k \in 1..Len(kept) |->
                <<kept[k].title, Dec(Roster[upto].id), DueName(upto)>>]

\* C14: in a book run an item without its ISBN anchor gives no row, every
\* other item gives exactly one row, and each row carries the id and the name
\* of the roster author whose listing the item is on.
C14_BookEndToEnd ==
    (scCat = "books" /\ written.done) =>
        LET title == Column(written, "Judul Buku")
            id == Column(written, "ID Sinta")
            name == Column(written, "Nama Sinta")
        IN [k \in 1..Len(written.rows) |-> <<title[k], id[k], name[k]>>]
               = DueBookRows(NAuthors)

\* main.py has written the book table for a first author (42, "Dr. A") whose
\* single page has two items with and then one without the ISBN anchor: two
\* rows carry that author's id, both with the name "Dr. A".
C14_Witness ==
    /\ variant = "main"
    /\ scCat = "books"
    /\ scPc = "saved"
    /\ Len(remote.listing[1].pages) = 1
    /\ LET items == PageItems(1, 1)
       IN Len(items) = 3 /\ items[1].nq >= 1 /\ items[2].nq >= 1 /\ items[3].nq = 0
    /\ LET mine == {k \in 1..Len(written.rows) :
                       Column(written, "ID Sinta")[k] = Dec(42)}
       IN /\ Cardinality(mine) = 2
          /\ \A k \in mine : Column(written, "Nama Sinta")[k] = <<"Dr.", "A">>

\* =============================================================== main()
\* --force-login, and whether load_lecturers can read the roster file.
Args == [forceLogin : BOOLEAN, rosterOk : BOOLEAN]

MnInit ==
    /\ mnArgs \in Args
    /\ mnPc = "initialize"
    /\ mnTables = <<>>
    /\ mnGarbled = "none"

\* main() is not run.
MnPark ==
    /\ mnArgs = [forceLogin |-> FALSE, rosterOk |-> TRUE]
    /\ mnPc = "parked"
    /\ mnTables = <<>>
    /\ mnGarbled = "none"

\* The portal of a run of main(): one page with one item for each author.
RunSeed ==
    [np |-> [ai \in 1..NAuthors |-> 1], n |-> 1, bad |-> {}, on |-> EveryPage,
     garbled |-> 0]

RunCategories == {"books", "profile"}

\* The category run waits for main().
ScWait ==
    /\ scCat \in RunCategories
    /\ remote = [listing |-> [ai \in 1..NAuthors |-> Listing(scCat, RunSeed, ai)],
                 profile |-> [ai \in 1..NAuthors |-> FullProfile], expiry |-> NoExpiry]
    /\ scPc = "parked"
    /\ scAuthor = 1
    /\ scNames = <<>>
    /\ scPage = 0
    /\ scTotal = 0
    /\ scResults = <<>>
    /\ allResults = <<>>
    /\ written = NotWritten
    /\ scError = "none"
    /\ requests = <<>>

\* app.initialize(), first step: load_lecturers; a roster that cannot be
\* read ends the run with sys.exit(1).
LoadLecturers ==
    /\ mnPc = "initialize"
    /\ mnPc' = IF mnArgs.rosterOk THEN "session" ELSE "exited"
    /\ UNCHANGED <<mnArgs, mnTables, mnGarbled>>
    /\ UNCHANGED <<pgVars, smVars, scVars, txVars>>

\* app.initialize(), second step: self.session_manager.initialize_session().
RunInitializeSession ==
    /\ mnPc = "session"
    /\ nCalls = 0
    /\ InitializeSession(FALSE)

\* if not app.initialize(): sys.exit(1); then the --force-login branch.
AfterInitialize ==
    /\ mnPc = "session"
    /\ smPc = "idle"
    /\ nCalls = 1
    /\ mnPc' = IF ~LastCall.ret THEN "exited"
               ELSE IF mnArgs.forceLogin THEN "relogin" ELSE "scrape"
    /\ UNCHANGED <<mnArgs, mnTables, mnGarbled>>
    /\ UNCHANGED <<pgVars, smVars, scVars, txVars>>

\* app.session_manager.initialize_session(force_new_login=True)
RunForceLogin ==
    /\ mnPc = "relogin"
    /\ nCalls = 1
    /\ InitializeSession(TRUE)

\* The statement after the forced call: its return value is not looked at.
AfterForceLogin ==
    /\ mnPc = "relogin"
    /\ smPc = "idle"
    /\ nCalls = 2
    /\ mnPc' = "scrape"
    /\ UNCHANGED <<mnArgs, mnTables, mnGarbled>>
    /\ UNCHANGED <<pgVars, smVars, scVars, txVars>>

\* main() calls the category method.
StartCategory ==
    /\ mnPc = "scrape"
    /\ scPc = "parked"
    /\ mnPc' = "scraping"
    /\ scPc' = "name"
    /\ UNCHANGED <<mnArgs, mnTables, mnGarbled>>
    /\ UNCHANGED <<scCat, remote, scAuthor, scNames, scPage, scTotal, scResults,
                   allResults, written, scError, requests>>
    /\ UNCHANGED <<pgVars, smVars, txVars>>

RunNext ==
    \/ LoadLecturers
    \/ RunInitializeSession
    \/ \E resp \in ProbeResponses : Probe(resp)
    \/ \E outcome \in PageOutcomes : LoginPage(outcome)
    \/ \E page \in TokenPages, failed \in BOOLEAN : Token(page, failed)
    \/ \E resp \in PostResponses : Submit(resp)
    \/ Persist
    \/ AfterInitialize
    \/ RunForceLogin
    \/ AfterForceLogin
    \/ StartCategory
    \/ \E fetched \in BOOLEAN : ResolveName(fetched)
    \/ \E fetched \in BOOLEAN : FirstFetch(fetched)
    \/ \E fetched \in BOOLEAN : FetchPage(fetched)
    \/ ReturnResults
    \/ \E fetched \in BOOLEAN : ScrapeProfile(fetched)
    \/ SaveToCsv

\* C11: once a call of initialize_session has returned false, no listing
\* page and no profile page is requested in that run.
C11_AbortOnFailedSession ==
    (\E e \in Calls : ~e.ret) => requests = <<>>

\* ------------------------------------------------------------- scrape_all
\* The categories in the order scrape_all runs them (scrape_publikasi runs
\* its three types in turn and writes a table for each).
AllOrder ==
    <<"books", "haki", "scopus", "gs", "wos", "research", "services", "profile">>

Position(cat) == CHOOSE k \in 1..Len(AllOrder) : AllOrder[k] = cat

\* The portal as the run of a category sees it: one page with one item for
\* each author, the first author's indicator not a number in one category.
AllPortal(cat, garbled) ==
    [listing |-> [ai \in 1..NAuthors |->
                     Listing(cat, [RunSeed EXCEPT !.garbled = IF cat = garbled THEN 1 ELSE 0],
                             ai)],
     profile |-> [ai \in 1..NAuthors |-> FullProfile],
     expiry |-> NoExpiry]

AlInit ==
    /\ mnArgs = [forceLogin |-> FALSE, rosterOk |-> TRUE]
    /\ mnPc = "scraping"
    /\ mnTables = <<>>
    /\ mnGarbled \in {"none"} \cup ListScrapers
    /\ scCat = AllOrder[1]
    /\ remote = AllPortal(AllOrder[1], mnGarbled)
    /\ scPc = "name"
    /\ scAuthor = 1
    /\ scNames = <<>>
    /\ scPage = 0
    /\ scTotal = 0
    /\ scResults = <<>>
    /\ allResults = <<>>
    /\ written = NotWritten
    /\ scError = "none"
    /\ requests = <<>>

\* A category method returns to scrape_all, which calls the next one or
\* returns to main() after the last.
NextCategory ==
    /\ mnPc = "scraping"
    /\ scPc = "saved"
    /\ mnTables' = Append(mnTables, scCat)
    /\ IF Position(scCat) < Len(AllOrder)
       THEN LET next == AllOrder[Position(scCat) + 1]
            IN /\ scCat' = next
               /\ remote' = AllPortal(next, mnGarbled)
               /\ scPc' = "name"
               /\ scAuthor' = 1
               /\ scNames' = <<>>
               /\ scPage' = 0
               /\ scTotal' = 0
               /\ scResults' = <<>>
               /\ allResults' = <<>>
               /\ written' = NotWritten
               /\ mnPc' = mnPc
       ELSE /\ scPc' = "parked"
            /\ mnPc' = "done"
            /\ UNCHANGED <<scCat, remote, scAuthor, scNames, scPage, scTotal,
                           scResults, allResults, written>>
    /\ UNCHANGED <<scError, requests, mnArgs, mnGarbled>>
    /\ UNCHANGED <<pgVars, smVars, txVars>>

AlNext ==
    \/ \E fetched \in BOOLEAN : ResolveName(fetched)
    \/ \E fetched \in BOOLEAN : FirstFetch(fetched)
    \/ \E fetched \in BOOLEAN : FetchPage(fetched)
    \/ ReturnResults
    \/ \E fetched \in BOOLEAN : ScrapeProfile(fetched)
    \/ SaveToCsv
    \/ NextCategory

\* The categories that have a table: those of mnTables and the running one
\* once its save_to_csv is done.
TablesWritten ==
    mnTables \o (IF written.done /\ scPc = "saved" THEN <<scCat>> ELSE <<>>)

\* C30: in scrape_all, once a page-level failure (a transport error or an
\* indicator that is not a number) has been raised in a category, the run
\* has ended: no step follows, the failing category and the categories after
\* it have no table and no request was made for a category after it, and the
\* categories before it have their tables.
C30_FailureEndsScrapeAll ==
    /\ scError # "none" =>
          /\ scError \in {"ConnectionError", "ValueError"}
          /\ ~ENABLED AlNext
          /\ ~written.done
          /\ TablesWritten = SubSeq(AllOrder, 1, Position(scCat) - 1)
          /\ \A k \in 1..Len(requests) :
                requests[k].view = "name" \/ Position(requests[k].view) <= Position(scCat)
    /\ scError = "none" =>
          \E k \in 0..Len(AllOrder) : TablesWritten = SubSeq(AllOrder, 1, k)

\* The run has ended in the Google Scholar category, the fourth, with the
\* ValueError of its first author's indicator; the book, HAKI and Scopus
\* tables are written.
C30_Witness ==
    /\ scCat = "gs"
    /\ scPc = "crashed"
    /\ scError = "ValueError"
    /\ mnGarbled = "gs"
    /\ mnTables = <<"books", "haki", "scopus">>
    /\ Len(requests) > 0

\* ============================================================ item markup
\* The texts of one ar-list-item: its title div, its labelled anchor (the
\* label's prefix and the value after it), its ar-pub, ar-year and ar-cited
\* anchors, the anchors of its ar-meta divs in document order (text, whether
\* the anchor has a class attribute, and its link target) and its
\* ar-quartile anchors in document order.
TxCats == {"books", "haki", "gs", "research", "services"}

LabelPrefix(cat) ==
    CASE cat = "books" -> <<"C", "a", "t", "e", "g", "o", "r", "y", ":", " ">>
      [] cat = "haki" -> <<"I", "n", "v", "e", "n", "t", "o", "r", " ", ":", " ">>
      [] cat = "gs" -> <<"A", "u", "t", "h", "o", "r", "s", " ", ":", " ">>
      [] OTHER -> <<"L", "e", "a", "d", "e", "r", " ", ":", " ">>

LabelValues == {<<"X">>, <<"X", ":", "Y">>, <<"X", " ", ":", " ", "Y", " ">>}

TitleTexts ==
    {<<"T">>, <<" ", "T", "\n", "U", " ">>, <<"T", "\n", "\n", "U">>,
     <<"T", " ", " ", "U">>, <<"\n", "T", "\r", "\n", "U">>}

PlainTexts == {<<"P">>, <<" ", "P", "\n">>, <<"P", "\n", "Q">>}

\* The anchors an ar-meta div can hold: an author anchor (href "#!", no
\* class), the self link (href "#!" with a class), a member anchor (href
\* with /authors/profile/) and an anchor of neither kind.
AnchorKinds == {"author", "self", "member", "other"}

AnchorNames == << <<"A">>, <<"B">>, <<"C">> >>

MaxAnchors == Len(AnchorNames)

Anchor(kind, k) ==
    [text |-> AnchorNames[k],
     cls |-> kind \in {"self", "other"},
     href |-> CASE kind \in {"author", "self"} -> "#!"
                [] kind = "member" -> "/authors/profile/"
                [] OTHER -> "/affiliations/"]

AnchorLists ==
    UNION {{[k \in 1..n |-> Anchor(kinds[k], k)] : kinds \in [1..n -> AnchorKinds]} :
              n \in 0..MaxAnchors}

SlotTexts == {<<"R", "p">>, <<"O", "k">>, <<" ", "D", "\n">>}

MaxSlots == 4

SlotLists == UNION {[1..n -> SlotTexts] : n \in 0..MaxSlots}

PlainItem ==
    [title |-> <<"T">>, value |-> <<"X">>, pub |-> <<"P">>, year |-> <<"2", "0">>,
     cited |-> <<"9">>, anchors |-> <<Anchor("author", 1)>>,
     quartiles |-> << <<"R", "p">>, <<"O", "k">>, <<"D">> >>]

\* Items that differ from the plain item in one group of elements.
TxItems ==
    {[PlainItem EXCEPT !.value = v] : v \in LabelValues}
        \cup {[PlainItem EXCEPT !.title = t] : t \in TitleTexts}
        \cup {[PlainItem EXCEPT !.pub = t] : t \in PlainTexts}
        \cup {[PlainItem EXCEPT !.anchors = a] : a \in AnchorLists}
        \cup {[PlainItem EXCEPT !.quartiles = q] : q \in SlotLists}

\* The text of the anchor that find('a', string=...) gives for the label.
LabelText(cat, item) == LabelPrefix(cat) \o item.value

\* sep.join(texts)
RECURSIVE Join(_, _)
Join(texts, sep) ==
    IF texts = <<>> THEN <<>>
    ELSE IF Len(texts) = 1 THEN texts[1]
    ELSE texts[1] \o sep \o Join(Tail(texts), sep)

\* text.split(':')[-1].strip()
AfterColon(text) ==
    LET pieces == Split(text, <<":">>) IN Strip(pieces[Len(pieces)])

\* re.sub(<chars>+, " ", text): every maximal run of characters of chars
\* becomes one space.
RECURSIVE SubRuns(_, _)
SubRuns(text, chars) ==
    IF text = <<>> THEN <<>>
    ELSE IF Head(text) \in chars
         THEN IF Len(text) > 1 /\ text[2] \in chars
              THEN SubRuns(Tail(text), chars)
              ELSE <<" ">> \o SubRuns(Tail(text), chars)
         ELSE <<Head(text)>> \o SubRuns(Tail(text), chars)

\* text.replace('\n', ' ')
Replace(text, c, d) == [k \in 1..Len(text) |-> IF text[k] = c THEN d ELSE text[k]]

\* clean_text of scrape_research: re.sub(r"[\n\r]+", " ", text.strip())
CleanText(text) == SubRuns(Strip(text), {"\n", "\r"})

\* BookScraper.scrape_books: the anchors with href "#!" and no class
\* attribute, joined; then everything up to the first comma is cut.
BookAuthors(item) ==
    LET picked == SelectSeq(item.anchors, LAMBDA a : a.href = "#!" /\ ~a.cls)
        joined == Join([k \in 1..Len(picked) |-> Strip(picked[k].text)], <<",", " ">>)
    IN IF Contains(joined, <<",">>)
       THEN LET pieces == Split(joined, <<",">>)
            IN Strip(Join(Tail(pieces), <<",">>))
       ELSE joined

\* scrape_research, scrape_services: the anchors whose href contains
\* /authors/profile/.
Members(item) ==
    SelectSeq(item.anchors, LAMBDA a : a.href = "/authors/profile/")

BookFields(item) ==
    IF item.quartiles = <<>> THEN Raise("AttributeError")
    ELSE Value(<< <<"Judul Buku", Strip(item.title)>>,
                  <<"Kategori Buku", AfterColon(LabelText("books", item))>>,
                  <<"Penulis", BookAuthors(item)>>,
                  <<"Penerbit", Strip(item.pub)>>,
                  <<"Tahun", Strip(item.year)>>,
                  <<"Kota", Strip(item.cited)>>,
                  <<"ISBN", AfterColon(item.quartiles[1])>> >>)

HakiFields(item) ==
    IF item.quartiles = <<>> THEN Raise("AttributeError")
    ELSE Value(<< <<"Judul HAKI", Strip(item.title)>>,
                  <<"Penemu", AfterColon(LabelText("haki", item))>>,
                  <<"Jenis HAKI", Strip(item.quartiles[1])>>,
                  <<"Nomor HAKI", AfterColon(item.cited)>>,
                  <<"Tahun", Strip(item.year)>> >>)

\* scrape_google_scholar: the journal text is taken as it is.
GScholarFields(item) ==
    LET years == Words(Strip(item.year))
        cites == Words(Strip(item.cited))
    IN IF years = <<>> \/ cites = <<>> THEN Raise("IndexError")
       ELSE Value(<< <<"Judul Artikel", Strip(item.title)>>,
                     <<"Nama Jurnal", item.pub>>,
                     <<"Penulis", AfterColon(LabelText("gs", item))>>,
                     <<"Tahun", years[Len(years)]>>,
                     <<"Sitasi", cites[1]>> >>)

\* scrape_research with the quartile slots read by what they say: the
\* status is the first slot that says Ok.
ResearchFieldsBySlotTextMutant(item) ==
    IF Len(item.quartiles) < 3 THEN Raise("IndexError")
    ELSE LET members == Members(item)
             ok == {k \in 1..Len(item.quartiles) : item.quartiles[k] = <<"O", "k">>}
             at == IF ok = {} THEN 2 ELSE CHOOSE k \in ok : \A j \in ok : k <= j
         IN Value(<< <<"Judul Penelitian", CleanText(item.title)>>,
                  <<"Ketua Penelitian", CleanText(AfterColon(LabelText("research", item)))>>,
                  <<"Sumber Dana", CleanText(item.pub)>>,
                  <<"Anggota Penelitian",
                    Join([k \in 1..Len(members) |-> CleanText(members[k].text)],
                         <<";", " ">>)>>,
                  <<"Tahun", CleanText(item.year)>>,
                  <<"Besar Dana", CleanText(item.quartiles[1])>>,
                  <<"Status", CleanText(item.quartiles[at])>>,
                  <<"Sumber", CleanText(item.quartiles[3])>> >>)

ResearchFields(item) ==
    IF Len(item.quartiles) < 3 THEN Raise("IndexError")
    ELSE LET members == Members(item)
         IN Value(<< <<"Judul Penelitian", CleanText(item.title)>>,
                  <<"Ketua Penelitian", CleanText(AfterColon(LabelText("research", item)))>>,
                  <<"Sumber Dana", CleanText(item.pub)>>,
                  <<"Anggota Penelitian",
                    Join([k \in 1..Len(members) |-> CleanText(members[k].text)],
                         <<";", " ">>)>>,
                  <<"Tahun", CleanText(item.year)>>,
                  <<"Besar Dana", CleanText(item.quartiles[1])>>,
                  <<"Status", CleanText(item.quartiles[2])>>,
                  <<"Sumber", CleanText(item.quartiles[3])>> >>)

\* scrape_services: the title has its newlines replaced and its whitespace
\* runs collapsed, the other texts are stripped.
ServiceFields(item) ==
    IF Len(item.quartiles) < 3 THEN Raise("IndexError")
    ELSE LET members == Members(item)
         IN Value(<< <<"Judul PPM",
                    SubRuns(Replace(Strip(item.title), "\n", " "),
                            {" ", "\n", "\r", "\t"})>>,
                  <<"Ketua PPM", AfterColon(LabelText("services", item))>>,
                  <<"Skim PPM", Strip(item.pub)>>,
                  <<"Anggota PPM",
                    Join([k \in 1..Len(members) |-> Strip(members[k].text)],
                         <<";", " ">>)>>,
                  <<"Tahun", Strip(item.year)>>,
                  <<"Besar Dana", Strip(item.quartiles[1])>>,
                  <<"Status", Strip(item.quartiles[2])>>,
                  <<"Sumber", Strip(item.quartiles[3])>> >>)

ItemFields(cat, item) ==
    CASE cat = "books" -> BookFields(item)
      [] cat = "haki" -> HakiFields(item)
      [] cat = "gs" -> GScholarFields(item)
      [] cat = "research" -> ResearchFields(item)
      [] cat = "services" -> ServiceFields(item)

\* The try body has not run yet.
NotRun == [exc |-> "pending", val |-> 0]

TxInit ==
    /\ txCat \in TxCats
    /\ txItem \in TxItems
    /\ txRec = NotRun

\* No item is extracted.
TxPark ==
    /\ txCat = "books"
    /\ txItem = PlainItem
    /\ txRec = [exc |-> "parked", val |-> 0]

\* The try body of the per-item loop of the category's scraper.
ExtractItem ==
    /\ txRec.exc = "pending"
    /\ txRec' = ItemFields(txCat, txItem)
    /\ UNCHANGED <<txCat, txItem>>
    /\ UNCHANGED <<pgVars, smVars, scVars, mnVars>>

TxNext == ExtractItem

\* ------------------------------------------------- item markup: properties
\* The try body has run and has given a record.
Extracted == txRec.exc = "none"

LabelField(cat) ==
    CASE cat = "books" -> "Kategori Buku"
      [] cat = "haki" -> "Penemu"
      [] cat = "gs" -> "Penulis"
      [] cat = "research" -> "Ketua Penelitian"
      [] cat = "services" -> "Ketua PPM"

\* The trimmed text after the first colon of a text that has one.
AfterFirstColon(text) ==
    LET at == CHOOSE i \in 1..Len(text) :
                  text[i] = ":" /\ \A j \in 1..(i - 1) : text[j] # ":"
    IN Strip(SubSeq(text, at + 1, Len(text)))

\* C22: the field taken from the labelled anchor (Category, Inventor,
\* Leader) is the trimmed text after the first colon of the anchor's text,
\* also when the value has a colon of its own.
C22_LabelValue ==
    (Extracted /\ txCat \in {"books", "haki", "research", "services"}) =>
        Get(txRec.val, LabelField(txCat)) = AfterFirstColon(LabelText(txCat, txItem))

\* The texts of the anchors of kind-test pick, in document order.
Collected(pick(_)) ==
    LET picked == SelectSeq(txItem.anchors, pick)
    IN [k \in 1..Len(picked) |-> Strip(picked[k].text)]

\* C23: Penulis of a book is the ", "-join of the texts of all anchors with
\* href "#!" that have no class attribute, in document order; the member
\* field of a research or community-service record is the "; "-join of the
\* texts of all anchors whose href has the profile path, in document order.
C23_NameLists ==
    /\ (Extracted /\ txCat = "books") =>
          Get(txRec.val, "Penulis")
              = Join(Collected(LAMBDA a : a.href = "#!" /\ ~a.cls), <<",", " ">>)
    /\ (Extracted /\ txCat = "research") =>
          Get(txRec.val, "Anggota Penelitian")
              = Join(Collected(LAMBDA a : a.href = "/authors/profile/"), <<";", " ">>)
    /\ (Extracted /\ txCat = "services") =>
          Get(txRec.val, "Anggota PPM")
              = Join(Collected(LAMBDA a : a.href = "/authors/profile/"), <<";", " ">>)

\* A text without newline and carriage return and without whitespace at
\* either end.
Normalized(text) ==
    /\ \A k \in 1..Len(text) : text[k] \notin {"\n", "\r"}
    /\ Strip(text) = text

\* C24: no field of an extracted record has a newline in it or whitespace
\* at either end.
C24_TextNormalized ==
    Extracted => \A k \in 1..Len(txRec.val) : Normalized(txRec.val[k][2])

\* What the extractor makes of a slot's text: clean_text in
\* scrape_research, strip in scrape_services.
SlotValue(cat, text) == IF cat = "research" THEN CleanText(text) ELSE Strip(text)

\* C26: in a research or community-service record Besar Dana is the text of
\* the first ar-quartile anchor, Status of the second and Sumber of the
\* third, whatever the three texts are and however many anchors follow; an
\* item with fewer than three of them gives no record.
C26_SlotsByPosition ==
    (txCat \in {"research", "services"} /\ txRec.exc \notin {"pending", "parked"}) =>
        IF Len(txItem.quartiles) < 3
        THEN txRec.exc = "IndexError"
        ELSE /\ Extracted
             /\ Get(txRec.val, "Besar Dana") = SlotValue(txCat, txItem.quartiles[1])
             /\ Get(txRec.val, "Status") = SlotValue(txCat, txItem.quartiles[2])
             /\ Get(txRec.val, "Sumber") = SlotValue(txCat, txItem.quartiles[3])

\* A research item with four ar-quartile anchors reading Rp, Rp, Ok, Ok has
\* given a record with Besar Dana Rp, Status Rp and Sumber Ok.
C26_Witness ==
    /\ txCat = "research"
    /\ Extracted
    /\ txItem.quartiles = << <<"R", "p">>, <<"R", "p">>, <<"O", "k">>, <<"O", "k">> >>
    /\ Get(txRec.val, "Besar Dana") = <<"R", "p">>
    /\ Get(txRec.val, "Status") = <<"R", "p">>
    /\ Get(txRec.val, "Sumber") = <<"O", "k">>

\* ========================================================== specifications
\* The pagination parsers on every indicator text of PgForms.
InitPagination == PgInit /\ SmPark /\ ScPark /\ MnPark /\ TxPark

SpecPagination ==
    InitPagination /\ [][PgNext]_vars

\* Successive calls of initialize_session under both entry points.
InitSession == SmInit /\ PgPark /\ ScPark /\ MnPark /\ TxPark

SpecSession ==
    InitSession /\ [][SmNext]_vars

InitScrape == ScInit /\ PgPark /\ variant \in Variants /\ SmParked /\ MnPark /\ TxPark

\* One category run over the roster, under both entry points.
SpecScrape ==
    InitScrape /\ [][ScNext]_vars

InitRun == MnInit /\ SmInit /\ ScWait /\ PgPark /\ TxPark

\* One run of main() with one category flag, under both entry points.
SpecRun ==
    InitRun /\ [][RunNext]_vars

InitBooks == BkInit /\ PgPark /\ variant \in Variants /\ SmParked /\ MnPark /\ TxPark

\* The book category run over single-page listings.
SpecBooks ==
    InitBooks /\ [][BkNext]_vars

InitMarkup == TxInit /\ PgPark /\ SmPark /\ ScPark /\ MnPark

\* The per-item extraction of five list scrapers on the items of TxItems.
SpecMarkup ==
    InitMarkup /\ [][TxNext]_vars

InitExpiry == ExInit /\ PgPark /\ variant \in Variants /\ SmParked /\ MnPark /\ TxPark

\* One category run in which the session expires.
SpecExpiry ==
    InitExpiry /\ [][ScNext]_vars

InitAll == AlInit /\ PgPark /\ variant \in Variants /\ SmParked /\ TxPark

\* scrape_all over the categories in turn.
SpecAll ==
    InitAll /\ [][AlNext]_vars

====
